-------------------------- MODULE NumberingProofs --------------------------
(***************************************************************************)
(* Theorems about Numbering: the numbers of trips and reports, for every   *)
(* set of trips, years and requests, every base and every width.           *)
(***************************************************************************)
EXTENDS Numbering, FiniteSetTheorems, TLAPS

USE NumberingAssumption

-----------------------------------------------------------------------------
(* Largest elements                                                        *)

\* A set of naturals below a bound, if it has an element, has a largest one.
LEMMA LargestExists ==
  ASSUME NEW b \in Nat, NEW T \in SUBSET (0 .. b), T # {}
  PROVE  \E m \in T : \A n \in T : n <= m
<1> DEFINE S == 0 .. b
           Above(m) == (m + 1) .. b
           Rests == {Above(m) : m \in T}
<1>1. IsFiniteSet(S)
  BY FS_Interval
<1>2. Rests \in SUBSET (SUBSET S) /\ Rests # {}
  <2>1. \A m \in T : Above(m) \in SUBSET S
    OBVIOUS
  <2> HIDE DEF Above, S
  <2> QED
    BY <2>1
<1>3. Rests \subseteq FiniteSubsetsOf(S)
  <2> SUFFICES ASSUME NEW R \in Rests PROVE R \in FiniteSubsetsOf(S)
    OBVIOUS
  <2>1. R \in SUBSET S
    BY <1>2
  <2> HIDE DEF Rests, S
  <2>2. IsFiniteSet(R)
    BY <1>1, <2>1, FS_Subset
  <2> QED
    BY <2>1, <2>2 DEF FiniteSubsetsOf
<1>4. IsWellFoundedOn(StrictSubsetOrdering(S), FiniteSubsetsOf(S))
  BY <1>1, FS_StrictSubsetOrderingWellFounded
<1> HIDE DEF S
<1>5. PICK R \in Rests : \A U \in Rests : <<U, R>> \notin StrictSubsetOrdering(S)
  <2> HIDE DEF Rests
  <2> QED
    BY <1>2, <1>3, <1>4, WFMin
<1>6. PICK m \in T : R = Above(m)
  OBVIOUS
<1>7. ASSUME NEW n \in T, ~(n <= m) PROVE FALSE
  <2>1. m \in Nat /\ n \in Nat /\ n <= b /\ m < n
    BY <1>7
  <2>2. Above(n) \subseteq Above(m) /\ n \in Above(m) /\ n \notin Above(n)
    BY <2>1
  <2>3. Above(n) \in Rests /\ Above(m) \in Rests /\ Above(n) # Above(m)
    BY <2>2
  <2>4. <<Above(n), Above(m)>> \in StrictSubsetOrdering(S)
    BY <1>2, <2>2, <2>3 DEF StrictSubsetOrdering
  <2> QED
    BY <1>5, <1>6, <2>3, <2>4
<1> QED
  BY <1>7

\* The naturals have a smallest one of any set: the clock starts in some year.
LEMMA SmallestExists ==
  ASSUME NEW S \in SUBSET Nat, S # {}
  PROVE  \E m \in S : \A n \in S : m <= n
<1>1. PICK y \in S : y \in Nat
  OBVIOUS
<1> DEFINE T == {y - n : n \in {k \in S : k <= y}}
<1>2. T \in SUBSET (0 .. y) /\ T # {}
  BY <1>1
<1>3. PICK d \in T : \A e \in T : e <= d
  BY <1>1, <1>2, LargestExists
<1>4. PICK m \in S : m <= y /\ d = y - m
  OBVIOUS
<1>5. ASSUME NEW n \in S PROVE m <= n
  <2>1. m \in Nat /\ n \in Nat /\ y \in Nat
    BY <1>1
  <2>2. CASE n <= y
    <3>1. y - n \in T
      BY <2>2
    <3>2. y - n <= y - m
      BY <1>3, <1>4, <3>1
    <3> QED
      BY <2>1, <3>2
  <2>3. CASE ~(n <= y)
    BY <1>4, <2>1, <2>3
  <2> QED
    BY <2>2, <2>3
<1> QED
  BY <1>5

-----------------------------------------------------------------------------
(* The order of texts                                                      *)

\* A number by which the texts are ordered.
Rank(n) == IF n < Limit THEN 2 * (Base * n) ELSE 2 * n + 1

\* Multiples of the base are ordered as the numbers are.
LEMMA Multiples ==
  ASSUME NEW m \in Nat, NEW n \in Nat
  PROVE  /\ Base * m \in Nat /\ m <= Base * m
         /\ m < n <=> Base * m < Base * n
         /\ m = n <=> Base * m = Base * n
<1>1. Base \in Nat /\ Base > 1
  OBVIOUS
<1>2. ASSUME NEW a \in Nat, NEW c \in Nat, a < c PROVE Base * a < Base * c
  <2>1. PICK d \in Nat : c = a + d /\ d > 0
    <3>1. c - a \in Nat /\ c = a + (c - a) /\ c - a > 0
      BY <1>2
    <3> QED
      BY <3>1
  <2>2. Base * c = Base * a + Base * d
    BY <1>1, <2>1
  <2>3. Base * d > 0
    BY <1>1, <2>1
  <2>4. Base * a \in Nat /\ Base * d \in Nat
    BY <1>1, <2>1
  <2> QED
    BY <2>2, <2>3, <2>4
<1>3. Base * m \in Nat /\ Base * n \in Nat /\ m <= Base * m
  BY <1>1
<1>4. (m < n => Base * m < Base * n) /\ (n < m => Base * n < Base * m)
  BY <1>2
<1> QED
  BY <1>3, <1>4

\* What is assumed of the base and the width.
LEMMA LimitType == Limit \in Nat /\ Limit > 2
  BY DEF Limit

\* The texts are ordered by that, totally.
LEMMA TextOrder ==
  ASSUME NEW m \in Nat, NEW n \in Nat
  PROVE  /\ Rank(m) \in Nat
         /\ TextBefore(m, n) <=> Rank(m) < Rank(n)
         /\ m # n => Rank(m) # Rank(n)
<1>1. PICK a \in Nat : a = Base * m
  BY Multiples
<1>2. PICK c \in Nat : c = Base * n
  BY Multiples
<1>3. (m < n <=> a < c) /\ (m = n <=> a = c)
  BY <1>1, <1>2, Multiples
<1>4. Rank(m) = (IF m < Limit THEN 2 * a ELSE 2 * m + 1)
      /\ Rank(n) = (IF n < Limit THEN 2 * c ELSE 2 * n + 1)
  BY <1>1, <1>2 DEF Rank
<1>5. TextBefore(m, n) <=>
        \/ (m < Limit <=> n < Limit) /\ m < n
        \/ m < Limit /\ n >= Limit /\ a <= n
        \/ m >= Limit /\ n < Limit /\ m < c
  BY <1>1, <1>2 DEF TextBefore
<1> QED
  BY <1>3, <1>4, <1>5, LimitType

\* func.max(): among numbers below a bound there is one whose text is after all
\* others.
LEMMA MaxIsLast ==
  ASSUME NEW b \in Nat, NEW S \in SUBSET (0 .. b), S # {}
  PROVE  max(S) \in S /\ \A n \in S : n # max(S) => TextBefore(n, max(S))
<1>1. S \subseteq Nat /\ Base * b \in Nat
  BY Multiples
<1>2. PICK c \in Nat : c = 2 * (Base * b) + 1
  BY <1>1
<1> DEFINE T == {Rank(n) : n \in S}
<1>3. \A n \in S : Rank(n) \in 0 .. c
  <2> SUFFICES ASSUME NEW n \in S PROVE Rank(n) \in 0 .. c
    OBVIOUS
  <2>1. n \in Nat /\ n <= b /\ Base * n \in Nat /\ Base * n <= Base * b /\ b <= Base * b
    <3>1. n \in Nat /\ n <= b
      OBVIOUS
    <3> QED
      BY <1>1, <3>1, Multiples
  <2>2. PICK d \in Nat : d = Base * n
    BY <2>1
  <2>3. PICK e \in Nat : e = Base * b
    BY <1>1
  <2> QED
    BY <1>2, <2>1, <2>2, <2>3, LimitType DEF Rank
<1>4. T \in SUBSET (0 .. c) /\ T # {}
  BY <1>3
<1> HIDE DEF T
<1>5. PICK r \in T : \A x \in T : x <= r
  BY <1>4, LargestExists
<1>6. PICK m \in S : r = Rank(m)
  BY DEF T
<1>7. ASSUME NEW n \in S PROVE n = m \/ TextBefore(n, m)
  <2>1. Rank(n) <= Rank(m)
    BY <1>5, <1>6 DEF T
  <2>2. n \in Nat /\ m \in Nat
    BY <1>1
  <2>3. Rank(n) \in Nat /\ Rank(m) \in Nat /\ (n # m => Rank(n) # Rank(m))
    BY <2>2, TextOrder
  <2>4. TextBefore(n, m) <=> Rank(n) < Rank(m)
    BY <2>2, TextOrder
  <2> QED
    BY <2>1, <2>3, <2>4
<1>8. \E x \in S : \A n \in S : n = x \/ TextBefore(n, x)
  BY <1>7
<1>9. max(S) \in S /\ \A n \in S : n = max(S) \/ TextBefore(n, max(S))
  BY <1>8 DEF max
<1> QED
  BY <1>9

\* The next number is one more than a number of the set, or the first.
LEMMA NextNumber ==
  ASSUME NEW b \in Nat, NEW S \in SUBSET (0 .. b)
  PROVE  /\ next_no(S) \in 1 .. b + 1
         /\ S # {} => next_no(S) - 1 \in S
<1>1. CASE S = {}
  BY <1>1 DEF next_no
<1>2. CASE S # {}
  <2>1. PICK m \in S : m = max(S)
    BY <1>2, MaxIsLast
  <2>2. next_no(S) = m + 1
    BY <1>2, <2>1 DEF next_no
  <2>3. m \in Nat /\ m <= b
    OBVIOUS
  <2>4. next_no(S) - 1 = m
    BY <2>2, <2>3
  <2> QED
    BY <2>2, <2>3, <2>4
<1> QED
  BY <1>1, <1>2

-----------------------------------------------------------------------------
(* The invariant                                                           *)

\* The statements a request may be about to send.
Work ==
  [op : {"TRIP"}, trip : {None}, number : Number]
    \cup [op : {"DELETE"}, trip : TripIds, number : {None}]
    \cup [op : {"REPORT"}, trip : TripIds, number : Number]

\* Every request has computed such statements, or nothing.
WorkTypeOK == work \in [Workers -> Work \cup {None}]

\* The reports of a year, and how many they are.
OfYear(y) == {t \in TripIds : report[t] # None /\ report[t].year = y}

Count(y) == Cardinality(OfYear(y))

\* A number that was computed is not before the first, and that of a report not
\* beyond the one after the last, however many were inserted since.
IsAhead(r) ==
  /\ r.op = "TRIP" => r.number.sequence > 0
  /\ r.op = "REPORT" => r.number.sequence \in 1 .. Count(r.number.year) + 1

NumbersAhead == \A w \in Workers : ~Idle(w) => IsAhead(work[w])

\* The foreign key of the report.
ReportsHaveTrips == \A t \in TripIds : report[t] # None => Exists(t)

\* The unique constraint on trip_no.
TripNosDiffer == \A s, t \in TripIds :
  s # t /\ Exists(s) /\ Exists(t) => trip[s].trip_no # trip[t].trip_no

\* Only so many trips and reports were created up to now, of whatever TripIds.
FiniteSoFar ==
  /\ \A y \in Years : IsFiniteSet(OfYear(y))
  /\ \E b \in Nat : \A n \in TripNos : n.sequence <= b

\* The inductive invariant: each part is what the others need of the tables.
NumberInv ==
  /\ TypeOK
  /\ WorkTypeOK
  /\ NumbersAhead
  /\ ReportsHaveTrips
  /\ TripNosDiffer
  /\ FiniteSoFar
  /\ ReportNumbersHaveNoGaps

\* None and Gone are no rows, no numbers.
LEMMA NoRows ==
  /\ None \notin Number /\ None # Gone
  /\ None \notin [trip_no : Number, status : TripStatuses]
  /\ Gone \notin [trip_no : Number, status : TripStatuses]
<1>1. Number \subseteq [year : Nat, sequence : Nat]
  BY DEF Number
<1>2. [trip_no : Number, status : TripStatuses]
        \subseteq [trip_no : [year : Nat, sequence : Nat], status : TripStatuses]
  BY <1>1
<1> QED
  BY <1>1, <1>2

\* A trip that exists, and its number.
LEMMA TripRow ==
  ASSUME TypeOK, NEW t \in TripIds, Exists(t)
  PROVE  /\ trip[t] \in [trip_no : Number, status : TripStatuses]
         /\ trip[t].trip_no \in Number /\ trip[t].trip_no \in TripNos
         /\ trip[t].status \in TripStatuses
<1>1. trip[t] \in [trip_no : Number, status : TripStatuses]
  BY DEF TypeOK, Exists
<1> QED
  BY <1>1 DEF TripNos

\* The sequences of a year.
LEMMA SequencesType ==
  ASSUME NEW numbers \in SUBSET Number, NEW y
  PROVE  /\ Sequences(numbers, y) \in SUBSET Nat
         /\ \A n \in numbers : n.year = y => n.sequence \in Sequences(numbers, y)
         /\ \A s \in Sequences(numbers, y) : \E n \in numbers : n.year = y /\ n.sequence = s
  BY DEF Sequences, Number

\* The numbers in the tables are numbers.
LEMMA NumbersType ==
  ASSUME TypeOK
  PROVE  /\ TripNos \in SUBSET Number
         /\ ReportNos \in SUBSET Number
         /\ \A t \in TripIds : report[t] # None => report[t] \in ReportNos
<1>1. TripNos \in SUBSET Number
  BY TripRow DEF TripNos
<1> QED
  BY <1>1 DEF ReportNos, TypeOK

\* The number a new trip gets.
LEMMA NextTripNo ==
  ASSUME NumberInv
  PROVE  next_trip_no \in Number /\ next_trip_no.sequence > 0
<1>1. PICK b \in Nat : \A n \in TripNos : n.sequence <= b
  BY DEF NumberInv, FiniteSoFar
<1>2. PICK S : S = Sequences(TripNos, today)
  OBVIOUS
<1>3. S \in SUBSET (0 .. b)
  BY <1>1, <1>2, NumbersType, SequencesType DEF NumberInv
<1>4. PICK k : k = next_no(S)
  OBVIOUS
<1>5. k \in Nat /\ k > 0
  BY <1>3, <1>4, NextNumber
<1>6. next_trip_no = [year |-> today, sequence |-> k] /\ today \in Years
  BY <1>2, <1>4 DEF next_trip_no, NumberInv, TypeOK
<1> QED
  BY <1>5, <1>6 DEF Number

\* The number a new report gets: at most the one after the last of the year.
LEMMA NextReportNo ==
  ASSUME NumberInv
  PROVE  /\ next_report_no \in Number
         /\ next_report_no.sequence \in 1 .. Count(next_report_no.year) + 1
<1>1. PICK c : c = Count(today)
  OBVIOUS
<1>2. c \in Nat /\ today \in Years
  BY <1>1, FS_CardinalityType DEF Count, NumberInv, FiniteSoFar, TypeOK
<1>3. PICK S : S = Sequences(ReportNos, today)
  OBVIOUS
<1>4. S = 1 .. c
  BY <1>1, <1>2, <1>3 DEF NumberInv, ReportNumbersHaveNoGaps, Count, OfYear
<1>5. PICK k : k = next_no(S)
  OBVIOUS
<1>6. k \in 1 .. c + 1
  BY <1>2, <1>4, <1>5, NextNumber
<1>7. next_report_no = [year |-> today, sequence |-> k]
  BY <1>3, <1>5 DEF next_report_no
<1> QED
  BY <1>1, <1>2, <1>6, <1>7 DEF Number

\* The work a request is about to do, by what it is.
LEMMA WorkFields ==
  ASSUME WorkTypeOK, NEW w \in Workers, ~Idle(w)
  PROVE  /\ work[w].op = "TRIP" => work[w].number \in Number
         /\ work[w].op = "DELETE" => work[w].trip \in TripIds
         /\ work[w].op = "REPORT" => work[w].trip \in TripIds /\ work[w].number \in Number
         /\ work[w].op \in {"TRIP", "DELETE", "REPORT"}
<1>1. PICK r \in Work : r = work[w]
  BY DEF WorkTypeOK, Idle
<1>2. r.op = "TRIP" => r.number \in Number
  BY DEF Work
<1>3. r.op = "DELETE" => r.trip \in TripIds
  BY DEF Work
<1>4. r.op = "REPORT" => r.trip \in TripIds /\ r.number \in Number
  BY DEF Work
<1>5. r.op \in {"TRIP", "DELETE", "REPORT"}
  BY DEF Work
<1> QED
  BY <1>1, <1>2, <1>3, <1>4, <1>5

\* The invariant but for the requests, in tables that stay.
LEMMA TablesStay ==
  ASSUME NumberInv, UNCHANGED <<trip, report>>, today' \in Years
  PROVE  /\ TypeOK' /\ ReportsHaveTrips' /\ TripNosDiffer' /\ FiniteSoFar'
         /\ ReportNumbersHaveNoGaps'
         /\ \A y : Count(y)' = Count(y)
<1>1. TypeOK'
  BY DEF NumberInv, TypeOK, TripNos, ReportNos, Exists
<1>2. ReportsHaveTrips' /\ TripNosDiffer'
  BY DEF NumberInv, ReportsHaveTrips, TripNosDiffer, Exists
<1>3. FiniteSoFar' /\ ReportNumbersHaveNoGaps'
  <2>1. TripNos' = TripNos /\ ReportNos' = ReportNos /\ \A y : OfYear(y)' = OfYear(y)
    BY DEF TripNos, Exists, ReportNos, OfYear
  <2>2. \A y : Sequences(ReportNos, y)' = Sequences(ReportNos, y)
    BY <2>1 DEF Sequences
  <2> QED
    BY <2>1, <2>2 DEF NumberInv, FiniteSoFar, OfYear, ReportNumbersHaveNoGaps
<1>4. \A y : Count(y)' = Count(y)
  BY DEF Count, OfYear
<1> QED
  BY <1>1, <1>2, <1>3, <1>4

\* A request is ahead of the tables after a step when what it knows is.
LEMMA StillAhead ==
  ASSUME NEW w, NEW r, r = work'[w], IsAhead(r)'
  PROVE  IsAhead(work[w])'
  BY DEF IsAhead, Count, OfYear

\* One request computes what it is about to send.
LEMMA PrepareKeeps ==
  ASSUME NumberInv, NEW w \in Workers, NEW op, NEW t, NEW number,
         Prepare(w, op, t, number), [op |-> op, trip |-> t, number |-> number] \in Work,
         op = "TRIP" => number.sequence > 0,
         op = "REPORT" => number.sequence \in 1 .. Count(number.year) + 1
  PROVE  NumberInv'
<1>1. PICK r : r = [op |-> op, trip |-> t, number |-> number]
  OBVIOUS
<1>2. /\ work' = [work EXCEPT ![w] = r] /\ r \in Work /\ UNCHANGED <<trip, report, today>>
      /\ r.op = op /\ r.number = number
  BY <1>1 DEF Prepare
<1>3. WorkTypeOK' /\ work'[w] = r /\ \A v \in Workers : v # w => work'[v] = work[v]
  BY <1>2 DEF NumberInv, WorkTypeOK
<1>4. today' \in Years
  BY <1>2 DEF NumberInv, TypeOK
<1>5. \A y : Count(y)' = Count(y)
  BY <1>2, <1>4, TablesStay
<1>6. NumbersAhead'
  <2> SUFFICES ASSUME NEW v \in Workers, ~Idle(v)' PROVE IsAhead(work[v])'
    BY DEF NumbersAhead
  <2>1. CASE v = w
    <3>1. IsAhead(r)'
      BY <1>2, <1>5 DEF IsAhead
    <3> QED
      BY <1>3, <2>1, <3>1, StillAhead
  <2>2. CASE v # w
    <3>1. PICK x : x = work[v]
      OBVIOUS
    <3>2. x = work'[v] /\ IsAhead(x)
      BY <1>3, <2>2, <3>1 DEF Idle, NumberInv, NumbersAhead
    <3>3. IsAhead(x)'
      BY <1>5, <3>2 DEF IsAhead
    <3> QED
      BY <3>2, <3>3, StillAhead
  <2> QED
    BY <2>1, <2>2
<1> QED
  BY <1>2, <1>3, <1>4, <1>6, TablesStay DEF NumberInv

\* The handlers prepare statements that keep to that.
LEMMA RequestsKeep ==
  ASSUME NumberInv, NEW w \in Workers,
         create_trip(w) \/ \E t \in TripIds : delete_trip(w, t) \/ create_report(w, t)
  PROVE  NumberInv'
<1>1. CASE create_trip(w)
  <2>1. PICK n : n = next_trip_no
    OBVIOUS
  <2>2. Prepare(w, "TRIP", None, n) /\ n \in Number /\ n.sequence > 0
    BY <1>1, <2>1, NextTripNo DEF create_trip
  <2>3. [op |-> "TRIP", trip |-> None, number |-> n] \in Work
    BY <2>2 DEF Work
  <2> QED
    BY <2>2, <2>3, PrepareKeeps
<1>2. ASSUME NEW t \in TripIds, delete_trip(w, t) PROVE NumberInv'
  <2>1. Prepare(w, "DELETE", t, None)
    BY <1>2 DEF delete_trip
  <2>2. [op |-> "DELETE", trip |-> t, number |-> None] \in Work
    BY DEF Work
  <2> QED
    BY <2>1, <2>2, PrepareKeeps
<1>3. ASSUME NEW t \in TripIds, create_report(w, t) PROVE NumberInv'
  <2>1. PICK n : n = next_report_no
    OBVIOUS
  <2>2. Prepare(w, "REPORT", t, n) /\ n \in Number /\ n.sequence \in 1 .. Count(n.year) + 1
    BY <1>3, <2>1, NextReportNo DEF create_report
  <2>3. [op |-> "REPORT", trip |-> t, number |-> n] \in Work
    BY <2>2 DEF Work
  <2> QED
    BY <2>2, <2>3, PrepareKeeps
<1> QED
  BY <1>1, <1>2, <1>3

\* A request ends: the others go on as they were, and what they computed stays
\* good while no year loses a report.
LEMMA DoneKeeps ==
  ASSUME NumberInv, NEW w \in Workers, Done(w),
         \A y \in Years : Count(y) \in Nat /\ Count(y)' \in Nat /\ Count(y) <= Count(y)'
  PROVE  WorkTypeOK' /\ NumbersAhead'
<1>1. work' = [work EXCEPT ![w] = None] /\ work \in [Workers -> Work \cup {None}]
  BY DEF Done, NumberInv, WorkTypeOK
<1>2. WorkTypeOK'
  BY <1>1 DEF WorkTypeOK
<1>3. NumbersAhead'
  <2> SUFFICES ASSUME NEW v \in Workers, ~Idle(v)' PROVE IsAhead(work[v])'
    BY DEF NumbersAhead
  <2>1. PICK r : r = work[v]
    OBVIOUS
  <2>2. r = work'[v] /\ ~Idle(v)
    BY <1>1, <2>1 DEF Idle
  <2>3. IsAhead(r)
    BY <2>1, <2>2 DEF NumberInv, NumbersAhead
  <2>4. r.op = "REPORT" => r.number.year \in Years /\ r.number.sequence \in Nat
    BY <2>1, <2>2, WorkFields DEF NumberInv, Number
  <2>5. ASSUME r.op = "REPORT" PROVE r.number.sequence \in 1 .. Count(r.number.year)' + 1
    <3>1. PICK y \in Years : y = r.number.year
      BY <2>4, <2>5
    <3>2. PICK s \in Nat : s = r.number.sequence
      BY <2>4, <2>5
    <3>3. s \in 1 .. Count(y) + 1
      BY <2>3, <2>5, <3>1, <3>2 DEF IsAhead
    <3>4. Count(y) \in Nat /\ Count(y)' \in Nat /\ Count(y) <= Count(y)'
      OBVIOUS
    <3>5. s \in 1 .. Count(y)' + 1
      BY <3>3, <3>4
    <3> QED
      BY <3>1, <3>2, <3>5
  <2>6. IsAhead(r)'
    BY <2>3, <2>5 DEF IsAhead
  <2> QED
    BY <2>2, <2>6, StillAhead
<1> QED
  BY <1>2, <1>3

\* The number of reports of a year is a number.
LEMMA CountType ==
  ASSUME FiniteSoFar, NEW y \in Years
  PROVE  Count(y) \in Nat
  BY FS_CardinalityType DEF FiniteSoFar, Count

\* A request that ends without a commit.
LEMMA RollbackKeeps ==
  ASSUME NumberInv, NEW w \in Workers, Rollback(w)
  PROVE  NumberInv'
<1>1. UNCHANGED <<trip, report, today>> /\ Done(w) /\ today' \in Years
  BY DEF Rollback, NumberInv, TypeOK
<1>2. \A y \in Years : Count(y) \in Nat /\ Count(y)' = Count(y)
  BY <1>1, TablesStay, CountType DEF NumberInv
<1>3. \A y \in Years : Count(y) \in Nat /\ Count(y)' \in Nat /\ Count(y) <= Count(y)'
  BY <1>2
<1> QED
  BY <1>1, <1>3, TablesStay, DoneKeeps DEF NumberInv

\* A trip is written: its row is one or is gone, and then it has no report; its
\* number is its own.
LEMMA TripWritten ==
  ASSUME NumberInv, NEW t \in TripIds,
         NEW row \in [trip_no : Number, status : TripStatuses] \cup {Gone},
         trip' = [trip EXCEPT ![t] = row], UNCHANGED <<report, today>>,
         row = Gone => report[t] = None,
         row # Gone => row.trip_no.sequence > 0
                       /\ \A s \in TripIds : s # t /\ Exists(s) => trip[s].trip_no # row.trip_no
  PROVE  /\ TypeOK' /\ ReportsHaveTrips' /\ TripNosDiffer' /\ FiniteSoFar'
         /\ ReportNumbersHaveNoGaps'
         /\ \A y : Count(y)' = Count(y)
<1>1. /\ trip' \in [TripIds -> [trip_no : Number, status : TripStatuses] \cup {None, Gone}]
      /\ trip'[t] = row /\ \A s \in TripIds : s # t => trip'[s] = trip[s]
  BY DEF NumberInv, TypeOK
<1>2. /\ Exists(t)' <=> row # Gone
      /\ \A s \in TripIds : s # t => (Exists(s)' <=> Exists(s))
  BY <1>1, NoRows DEF Exists
<1>3. \A n \in TripNos' : n \in TripNos \/ (row # Gone /\ n = row.trip_no)
  BY <1>1, <1>2 DEF TripNos
<1>4. ReportNos' = ReportNos
  BY DEF ReportNos
<1>5. TypeOK'
  <2>1. \A n \in TripNos' \cup ReportNos' : n.sequence > 0
    BY <1>3, <1>4 DEF NumberInv, TypeOK
  <2> QED
    BY <1>1, <2>1 DEF NumberInv, TypeOK
<1>6. ReportsHaveTrips'
  BY <1>2 DEF NumberInv, ReportsHaveTrips
<1>7. TripNosDiffer'
  BY <1>1, <1>2 DEF NumberInv, TripNosDiffer
<1>8. \A y : OfYear(y)' = OfYear(y) /\ Count(y)' = Count(y)
  BY DEF OfYear, Count
<1>9. FiniteSoFar'
  <2>1. PICK b \in Nat : \A n \in TripNos : n.sequence <= b
    BY DEF NumberInv, FiniteSoFar
  <2>2. \A n \in TripNos : n.sequence \in Nat
    BY NumbersType DEF NumberInv, Number
  <2>3. \E c \in Nat : \A n \in TripNos' : n.sequence <= c
    <3>1. CASE row = Gone
      BY <1>3, <2>1, <3>1
    <3>2. CASE row # Gone
      <4>1. PICK k \in Nat : k = row.trip_no.sequence
        BY <3>2 DEF Number
      <4>2. \A n \in TripNos' : n.sequence <= b + k
        <5> SUFFICES ASSUME NEW n \in TripNos' PROVE n.sequence <= b + k
          OBVIOUS
        <5>1. CASE n \in TripNos
          BY <2>1, <2>2, <4>1, <5>1
        <5>2. CASE n = row.trip_no
          BY <4>1, <5>2
        <5> QED
          BY <1>3, <5>1, <5>2
      <4>3. b + k \in Nat
        OBVIOUS
      <4> QED
        BY <4>2, <4>3
    <3> QED
      BY <3>1, <3>2
  <2> QED
    BY <1>8, <2>3 DEF NumberInv, FiniteSoFar
<1>10. ReportNumbersHaveNoGaps'
  BY <1>4, <1>8 DEF NumberInv, ReportNumbersHaveNoGaps, Sequences
<1> QED
  BY <1>5, <1>6, <1>7, <1>8, <1>9, <1>10

\* The INSERT of a trip keeps the invariant: the unique constraint on its number.
LEMMA CommitTripKeeps ==
  ASSUME NumberInv, NEW w \in Workers, CommitTrip(w)
  PROVE  NumberInv'
<1>1. PICK n \in Number : n = work[w].number /\ n.sequence > 0 /\ n \notin TripNos
  BY WorkFields DEF CommitTrip, NumberInv, NumbersAhead, IsAhead, Unique
<1>2. PICK t \in TripIds : trip[t] = None /\ trip' = [trip EXCEPT ![t] = [trip_no |-> n, status |-> "DRAFT"]]
  BY <1>1 DEF CommitTrip
<1>3. PICK row : row = [trip_no |-> n, status |-> "DRAFT"]
  OBVIOUS
<1>4. /\ row \in [trip_no : Number, status : TripStatuses] /\ row # Gone /\ row.trip_no = n
      /\ UNCHANGED <<report, today>> /\ Done(w)
  BY <1>3, NoRows DEF TripStatuses, CommitTrip
<1>5. \A s \in TripIds : s # t /\ Exists(s) => trip[s].trip_no # row.trip_no
  BY <1>1, <1>4, TripRow DEF NumberInv
<1>6. /\ TypeOK' /\ ReportsHaveTrips' /\ TripNosDiffer' /\ FiniteSoFar'
      /\ ReportNumbersHaveNoGaps' /\ \A y : Count(y)' = Count(y)
  BY <1>1, <1>2, <1>3, <1>4, <1>5, TripWritten
<1>7. \A y \in Years : Count(y) \in Nat /\ Count(y)' \in Nat /\ Count(y) <= Count(y)'
  BY <1>6, CountType DEF NumberInv
<1> QED
  BY <1>4, <1>6, <1>7, DoneKeeps DEF NumberInv

\* The DELETE of a trip: the foreign key of the report.
LEMMA CommitDeletionKeeps ==
  ASSUME NumberInv, NEW w \in Workers, CommitDeletion(w)
  PROVE  NumberInv'
<1>1. PICK t \in TripIds : t = work[w].trip /\ trip' = [trip EXCEPT ![t] = Gone] /\ report[t] = None
  BY WorkFields DEF CommitDeletion, NumberInv, Unreferenced
<1>2. UNCHANGED <<report, today>> /\ Done(w)
  BY DEF CommitDeletion
<1>3. /\ TypeOK' /\ ReportsHaveTrips' /\ TripNosDiffer' /\ FiniteSoFar'
      /\ ReportNumbersHaveNoGaps' /\ \A y : Count(y)' = Count(y)
  <2>1. PICK row : row = Gone
    OBVIOUS
  <2> QED
    BY <1>1, <1>2, <2>1, TripWritten
<1>4. \A y \in Years : Count(y) \in Nat /\ Count(y)' \in Nat /\ Count(y) <= Count(y)'
  BY <1>3, CountType DEF NumberInv
<1> QED
  BY <1>2, <1>3, <1>4, DoneKeeps DEF NumberInv

\* A change of status leaves the numbers alone.
LEMMA StatusKeeps ==
  ASSUME NumberInv, NEW t \in TripIds, NEW target \in TripStatuses, change_status(t, target)
  PROVE  NumberInv'
<1>1. PICK row : row = [trip[t] EXCEPT !.status = target]
  OBVIOUS
<1>2. /\ Exists(t) /\ trip' = [trip EXCEPT ![t] = row] /\ UNCHANGED <<report, today, work>>
  BY <1>1 DEF change_status
<1>3. /\ row \in [trip_no : Number, status : TripStatuses] /\ row # Gone
      /\ row.trip_no = trip[t].trip_no
  BY <1>1, <1>2, TripRow, NoRows DEF NumberInv
<1>4. row.trip_no.sequence > 0
        /\ \A s \in TripIds : s # t /\ Exists(s) => trip[s].trip_no # row.trip_no
  BY <1>2, <1>3, TripRow DEF NumberInv, TypeOK, TripNosDiffer
<1>5. /\ TypeOK' /\ ReportsHaveTrips' /\ TripNosDiffer' /\ FiniteSoFar'
      /\ ReportNumbersHaveNoGaps' /\ \A y : Count(y)' = Count(y)
  BY <1>2, <1>3, <1>4, TripWritten
<1>6. WorkTypeOK' /\ NumbersAhead'
  BY <1>2, <1>5 DEF NumberInv, WorkTypeOK, NumbersAhead, IsAhead, Idle, Count, OfYear
<1> QED
  BY <1>5, <1>6 DEF NumberInv

\* The INSERT of a report: the unique constraint leaves only the number after the
\* last of its year, so the numbers stay without gaps.
LEMMA CommitReportKeeps ==
  ASSUME NumberInv, NEW w \in Workers, CommitReport(w)
  PROVE  NumberInv'
<1>1. PICK n \in Number : n = work[w].number
  BY WorkFields DEF CommitReport, NumberInv
<1>2. PICK t \in TripIds : t = work[w].trip
  BY WorkFields DEF CommitReport, NumberInv
<1>3. /\ Exists(t) /\ report[t] = None /\ n \notin ReportNos
      /\ report' = [report EXCEPT ![t] = n]
      /\ Done(w) /\ UNCHANGED <<trip, today>>
      /\ n.sequence \in 1 .. Count(n.year) + 1
  BY <1>1, <1>2 DEF CommitReport, Unique, NumberInv, NumbersAhead, IsAhead
<1>4. PICK y \in Years, s \in Nat : n = [year |-> y, sequence |-> s] /\ y = n.year /\ s = n.sequence
  BY DEF Number
<1>5. /\ report' \in [TripIds -> Number \cup {None}] /\ report'[t] = n /\ n # None
      /\ \A q \in TripIds : q # t => report'[q] = report[q]
  BY <1>3, NoRows DEF NumberInv, TypeOK
<1>6. ReportNos' = ReportNos \cup {n}
  BY <1>3, <1>5 DEF ReportNos
<1>7. OfYear(y)' = OfYear(y) \cup {t} /\ t \notin OfYear(y)
      /\ \A z : z # y => OfYear(z)' = OfYear(z)
  BY <1>3, <1>4, <1>5 DEF OfYear
<1>8. /\ IsFiniteSet(OfYear(y)') /\ Count(y)' = Count(y) + 1 /\ Count(y) \in Nat
      /\ \A z : z # y => Count(z)' = Count(z)
  BY <1>7, FS_AddElement, FS_CardinalityType DEF NumberInv, FiniteSoFar, Count
<1>9. \A z \in Years : Count(z) \in Nat /\ Count(z)' \in Nat /\ Count(z) <= Count(z)'
  <2> SUFFICES ASSUME NEW z \in Years PROVE Count(z) \in Nat /\ Count(z)' \in Nat /\ Count(z) <= Count(z)'
    OBVIOUS
  <2>1. Count(z) \in Nat /\ (Count(z)' = Count(z) \/ Count(z)' = Count(z) + 1)
    BY <1>8, CountType DEF NumberInv
  <2> QED
    BY <2>1
<1>10. TypeOK'
  <2>1. TripNos' = TripNos
    BY <1>3 DEF TripNos, Exists
  <2>2. \A m \in TripNos' \cup ReportNos' : m.sequence > 0
    BY <1>3, <1>6, <1>8, <2>1 DEF NumberInv, TypeOK
  <2> QED
    BY <1>3, <1>5, <2>2 DEF NumberInv, TypeOK
<1>11. ReportsHaveTrips' /\ TripNosDiffer'
  BY <1>3, <1>5 DEF NumberInv, ReportsHaveTrips, TripNosDiffer, Exists
<1>12. FiniteSoFar'
  <2>1. TripNos' = TripNos
    BY <1>3 DEF TripNos, Exists
  <2> QED
    BY <1>7, <1>8, <2>1 DEF NumberInv, FiniteSoFar
<1>13. ReportNumbersHaveNoGaps'
  <2> SUFFICES ASSUME NEW z \in Years PROVE Sequences(ReportNos, z)' = 1 .. Count(z)'
    BY DEF ReportNumbersHaveNoGaps, Count, OfYear
  <2>1. Sequences(ReportNos, z) = 1 .. Count(z)
    BY DEF NumberInv, ReportNumbersHaveNoGaps, Count, OfYear
  <2>2. CASE z # y
    BY <1>4, <1>6, <1>8, <2>1, <2>2 DEF Sequences
  <2>3. CASE z = y
    <3>1. Sequences(ReportNos, y)' = Sequences(ReportNos, y) \cup {s}
      BY <1>4, <1>6 DEF Sequences
    <3>2. s \notin Sequences(ReportNos, y)
      <4> SUFFICES ASSUME NEW m \in ReportNos, m.year = y, m.sequence = s PROVE FALSE
        BY DEF Sequences
      <4>1. m \in Number
        BY NumbersType DEF NumberInv
      <4>2. m = [year |-> y, sequence |-> s]
        BY <4>1 DEF Number
      <4> QED
        BY <1>3, <1>4, <4>2
    <3>3. PICK c \in Nat : c = Count(y)
      BY <1>8
    <3>4. s = c + 1
      BY <1>3, <1>4, <2>1, <2>3, <3>2, <3>3
    <3>5. (1 .. c) \cup {s} = 1 .. c + 1
      BY <3>4
    <3> QED
      BY <1>8, <2>1, <2>3, <3>1, <3>3, <3>5
  <2> QED
    BY <2>2, <2>3
<1>14. WorkTypeOK' /\ NumbersAhead'
  BY <1>3, <1>9, DoneKeeps
<1> QED
  BY <1>10, <1>11, <1>12, <1>13, <1>14 DEF NumberInv

\* The invariant holds initially.
LEMMA NumberInit == Init => NumberInv
<1> SUFFICES ASSUME Init PROVE NumberInv
  OBVIOUS
<1>1. /\ \A t \in TripIds : trip[t] = None /\ report[t] = None
      /\ \A w \in Workers : Idle(w)
  BY DEF Init, Idle
<1>2. today \in Years
  BY SmallestExists DEF Init
<1>3. TripNos = {} /\ ReportNos = {} /\ \A y : OfYear(y) = {}
  BY <1>1 DEF TripNos, ReportNos, OfYear, Exists
<1>4. TypeOK
  BY <1>2, <1>3 DEF Init, TypeOK
<1>5. WorkTypeOK /\ NumbersAhead /\ ReportsHaveTrips /\ TripNosDiffer
  BY <1>1 DEF Init, WorkTypeOK, NumbersAhead, ReportsHaveTrips, TripNosDiffer, Exists
<1>6. FiniteSoFar
  BY <1>3, FS_EmptySet DEF FiniteSoFar
<1>7. ReportNumbersHaveNoGaps
  <2>1. \A y : Sequences(ReportNos, y) = {} /\ Cardinality(OfYear(y)) = 0
    BY <1>3, FS_EmptySet DEF Sequences
  <2>2. {} = 1 .. 0
    OBVIOUS
  <2> QED
    BY <2>1, <2>2 DEF ReportNumbersHaveNoGaps, OfYear
<1> QED
  BY <1>4, <1>5, <1>6, <1>7 DEF NumberInv

\* The turn of the year, and a step that changes nothing.
LEMMA ClockKeeps ==
  ASSUME NumberInv, NewYear \/ UNCHANGED vars
  PROVE  NumberInv'
<1>1. UNCHANGED <<trip, report, work>> /\ today' \in Years
  BY DEF NewYear, vars, NumberInv, TypeOK
<1>2. WorkTypeOK' /\ NumbersAhead'
  BY <1>1 DEF NumberInv, WorkTypeOK, NumbersAhead, IsAhead, Idle, Count, OfYear
<1> QED
  BY <1>1, <1>2, TablesStay DEF NumberInv

\* Every step keeps the invariant.
LEMMA NumberStep ==
  ASSUME NumberInv, [Next]_vars
  PROVE  NumberInv'
<1>1. ASSUME NEW w \in Workers,
             create_trip(w) \/ \E t \in TripIds : delete_trip(w, t) \/ create_report(w, t)
      PROVE  NumberInv'
  BY <1>1, RequestsKeep
<1>2. ASSUME NEW w \in Workers,
             CommitTrip(w) \/ CommitReport(w) \/ CommitDeletion(w) \/ Rollback(w)
      PROVE  NumberInv'
  BY <1>2, CommitTripKeeps, CommitReportKeeps, CommitDeletionKeeps, RollbackKeeps
<1>3. CASE \E t \in TripIds, target \in TripStatuses : change_status(t, target)
  BY <1>3, StatusKeeps
<1>4. CASE NewYear \/ UNCHANGED vars
  BY <1>4, ClockKeeps
<1> QED
  BY <1>1, <1>2, <1>3, <1>4 DEF Next

\* The inductive invariant.
THEOREM NumbersCorrect == Spec => []NumberInv
  BY NumberInit, NumberStep, PTL DEF Spec

\* Whatever creations overlap, fail or are computed from numbers that are no longer
\* the last, the reports of a year bear the numbers from 1 on, each one once
\* (next_report_no and the unique constraint on report_no).
THEOREM NumbersHaveNoGaps == Spec => []NumbersInv
<1>1. NumberInv => NumbersInv
  BY DEF NumberInv, NumbersInv
<1> QED
  BY <1>1, NumbersCorrect, PTL

-----------------------------------------------------------------------------
(* Numbers of reports are for good                                         *)

\* One trip with a report, across a step: it stays, with its number, and no other
\* trip gets that.
ForGood(t) ==
  report[t] # None =>
    /\ report'[t] = report[t]
    /\ Exists(t)' /\ trip'[t].trip_no = trip[t].trip_no
    /\ \A s \in TripIds \ {t} : Exists(s)' => trip'[s].trip_no # trip[t].trip_no

\* In every interleaving a trip with a report keeps its number, and no other trip
\* ever gets it, however long ago a deletion or a creation looked at the tables
\* (next_trip_no, the foreign key of the report, the unique constraint on trip_no).
THEOREM ReportNumbersAreForGood == Spec => NumbersOfReportsAreForGood
<1>1. ASSUME NumberInv, Next, NEW t \in TripIds, report[t] # None PROVE ForGood(t)
  <2>1. /\ Exists(t) /\ trip[t].trip_no \in TripNos
        /\ \A s \in TripIds \ {t} : Exists(s) => trip[s].trip_no # trip[t].trip_no
    BY <1>1, TripRow DEF NumberInv, ReportsHaveTrips, TripNosDiffer
  <2>2. CASE UNCHANGED <<trip, report>>
    BY <2>1, <2>2 DEF ForGood, Exists
  <2>3. ASSUME NEW w \in Workers, CommitTrip(w) PROVE ForGood(t)
    <3>1. PICK n \in Number : n = work[w].number /\ n \notin TripNos
      BY <1>1, <2>3, WorkFields DEF CommitTrip, NumberInv, Unique
    <3>2. PICK q \in TripIds :
            /\ trip[q] = None
            /\ trip' = [trip EXCEPT ![q] = [trip_no |-> n, status |-> "DRAFT"]]
      BY <2>3, <3>1 DEF CommitTrip
    <3>3. q # t /\ report' = report
      BY <2>1, <2>3, <3>2 DEF Exists, CommitTrip
    <3>4. /\ trip'[t] = trip[t] /\ trip'[q].trip_no = n
          /\ \A s \in TripIds : s # q => trip'[s] = trip[s]
      BY <1>1, <3>2, <3>3 DEF NumberInv, TypeOK
    <3> QED
      BY <2>1, <3>1, <3>3, <3>4 DEF ForGood, Exists
  <2>4. ASSUME NEW w \in Workers, CommitReport(w) PROVE ForGood(t)
    <3>1. PICK q \in TripIds : q = work[w].trip
      BY <1>1, <2>4, WorkFields DEF CommitReport, NumberInv
    <3>2. report[q] = None /\ report' = [report EXCEPT ![q] = work[w].number] /\ trip' = trip
      BY <2>4, <3>1 DEF CommitReport
    <3>3. report'[t] = report[t]
      BY <1>1, <3>2 DEF NumberInv, TypeOK
    <3> QED
      BY <2>1, <3>2, <3>3 DEF ForGood, Exists
  <2>5. ASSUME NEW w \in Workers, CommitDeletion(w) PROVE ForGood(t)
    <3>1. PICK q \in TripIds : q = work[w].trip
      BY <1>1, <2>5, WorkFields DEF CommitDeletion, NumberInv
    <3>2. report[q] = None /\ trip' = [trip EXCEPT ![q] = Gone] /\ report' = report
      BY <2>5, <3>1 DEF CommitDeletion, Unreferenced
    <3>3. q # t /\ \A s \in TripIds : s # q => trip'[s] = trip[s]
      BY <1>1, <3>2 DEF NumberInv, TypeOK
    <3>4. ~Exists(q)'
      BY <1>1, <3>2 DEF Exists, NumberInv, TypeOK
    <3> QED
      BY <2>1, <3>2, <3>3, <3>4 DEF ForGood, Exists
  <2>6. ASSUME NEW q \in TripIds, NEW target \in TripStatuses, change_status(q, target)
        PROVE  ForGood(t)
    <3>1. PICK row : row = [trip[q] EXCEPT !.status = target]
      OBVIOUS
    <3>2. Exists(q) /\ trip' = [trip EXCEPT ![q] = row] /\ report' = report
      BY <2>6, <3>1 DEF change_status
    <3>3. row.trip_no = trip[q].trip_no /\ row \notin {None, Gone}
      <4>1. trip[q] \in [trip_no : Number, status : TripStatuses]
        BY <1>1, <3>2, TripRow DEF NumberInv
      <4>2. row \in [trip_no : Number, status : TripStatuses] /\ row.trip_no = trip[q].trip_no
        BY <2>6, <3>1, <4>1
      <4> QED
        BY <4>2, NoRows
    <3>4. trip'[q] = row /\ \A s \in TripIds : s # q => trip'[s] = trip[s]
      BY <1>1, <3>2 DEF NumberInv, TypeOK
    <3>5. \A s \in TripIds : (Exists(s)' <=> Exists(s)) /\ (Exists(s) => trip'[s].trip_no = trip[s].trip_no)
      BY <3>2, <3>3, <3>4 DEF Exists
    <3> QED
      BY <1>1, <2>1, <3>2, <3>5 DEF ForGood
  <2>7. ASSUME NEW w \in Workers,
               \/ create_trip(w)
               \/ \E q \in TripIds : delete_trip(w, q) \/ create_report(w, q)
               \/ Rollback(w)
        PROVE  UNCHANGED <<trip, report>>
    BY <2>7 DEF create_trip, delete_trip, create_report, Prepare, Rollback
  <2>8. NewYear => UNCHANGED <<trip, report>>
    BY DEF NewYear
  <2> QED
    BY <1>1, <2>2, <2>3, <2>4, <2>5, <2>6, <2>7, <2>8 DEF Next
<1>2. NumberInv /\ [Next]_vars =>
        [\A t \in TripIds : report[t] # None =>
           /\ report'[t] = report[t]
           /\ Exists(t)' /\ trip'[t].trip_no = trip[t].trip_no
           /\ \A s \in TripIds \ {t} : Exists(s)' => trip'[s].trip_no # trip[t].trip_no]_vars
  BY <1>1 DEF ForGood
<1> QED
  BY <1>2, NumbersCorrect, PTL DEF Spec, NumbersOfReportsAreForGood

-----------------------------------------------------------------------------
(* Numbers that are free                                                   *)

\* The ids of trips that were handed out, of deleted ones too.
Taken == {t \in TripIds : trip[t] # None}

\* No number is larger than the trips that were ever created, none that is about
\* to be inserted larger than with it.
NumbersAreFew ==
  /\ \A n \in TripNos : n.sequence <= Cardinality(Taken)
  /\ \A w \in Workers : ~Idle(w) /\ work[w].op = "TRIP" =>
       work[w].number.sequence <= Cardinality(Taken) + 1

\* func.max() of numbers that do not reach 99990: the computed number is taken
\* when the last of four digits and the first of five both are.
LEMMA FreeNumber ==
  ASSUME NEW k \in Nat, k < Base * (Limit - 1), NEW S \in SUBSET (1 .. k)
  PROVE  next_no(S) \in S <=> {Limit - 1, Limit} \subseteq S
<1>1. CASE S = {}
  BY <1>1
<1>2. CASE S # {}
  <2>1. S \in SUBSET (0 .. k) /\ S \in SUBSET Nat
    OBVIOUS
  <2>2. PICK m \in S : m = max(S) /\ \A n \in S : n # m => TextBefore(n, m)
    BY <1>2, <2>1, MaxIsLast
  <2>3. next_no(S) = m + 1 /\ m \in Nat
    BY <1>2, <2>1, <2>2 DEF next_no
  <2>4. PICK l \in Nat : l = Limit - 1 /\ l + 1 = Limit /\ l > 1
    BY LimitType
  <2>5. ASSUME m + 1 \in S PROVE l \in S /\ l + 1 \in S
    <3>1. TextBefore(m + 1, m)
      BY <2>2, <2>3, <2>5
    <3>2. m = l
      BY <2>3, <2>4, <3>1, LimitType DEF TextBefore
    <3> QED
      BY <2>5, <3>2
  <2>6. ASSUME l \in S, l + 1 \in S PROVE m + 1 \in S
    <3>1. SUFFICES ASSUME m # l PROVE FALSE
      BY <2>6
    <3>2. TextBefore(l, m)
      BY <2>2, <2>6, <3>1
    <3>3. PICK d \in Nat : d = Base * l /\ m < d
      <4>1. Base * l \in Nat /\ k < Base * l /\ m <= k
        BY <2>3, <2>4, Multiples
      <4> QED
        BY <2>3, <4>1
    <3>4. m < l => ~TextBefore(l, m)
      BY <2>3, <2>4, LimitType DEF TextBefore
    <3>5. m >= Limit => ~TextBefore(l, m)
      BY <2>3, <2>4, <3>3, LimitType DEF TextBefore
    <3> QED
      BY <2>3, <2>4, <3>1, <3>2, <3>4, <3>5, LimitType
  <2> QED
    BY <2>3, <2>4, <2>5, <2>6
<1> QED
  BY <1>1, <1>2

\* A trip is written, or none is: no more numbers than trips.
LEMMA FewStep ==
  ASSUME IsFiniteSet(TripIds), NumberInv, NumbersAreFew, [Next]_vars
  PROVE  NumbersAreFew'
<1>1. Taken \in SUBSET TripIds /\ IsFiniteSet(Taken) /\ Cardinality(Taken) \in Nat
  BY FS_Subset, FS_CardinalityType DEF Taken
<1>2. PICK c \in Nat : c = Cardinality(Taken)
  BY <1>1
<1>3. ASSUME NEW n \in TripNos PROVE n.sequence \in Nat /\ n.sequence <= c
  BY <1>2, <1>3, NumbersType DEF NumbersAreFew, NumberInv, Number
<1>4. ASSUME TripNos' \subseteq TripNos, Taken' = Taken, UNCHANGED work PROVE NumbersAreFew'
  BY <1>4 DEF NumbersAreFew, Idle
<1>5. ASSUME TripNos' \subseteq TripNos, Taken' = Taken, NEW w \in Workers, Done(w)
      PROVE  NumbersAreFew'
  BY <1>5 DEF NumbersAreFew, Idle, Done, NumberInv, WorkTypeOK
<1>6. ASSUME UNCHANGED trip PROVE TripNos' = TripNos /\ Taken' = Taken
  BY <1>6 DEF TripNos, Exists, Taken
<1>7. ASSUME NEW w \in Workers, create_trip(w) PROVE NumbersAreFew'
  <2>1. PICK S : S = Sequences(TripNos, today)
    OBVIOUS
  <2>2. S \in SUBSET (0 .. c)
    BY <1>3, <2>1, NumbersType, SequencesType DEF NumberInv
  <2>3. PICK k : k = next_no(S)
    OBVIOUS
  <2>4. k \in 1 .. c + 1
    BY <2>2, <2>3, NextNumber
  <2>5. PICK r : r = [op |-> "TRIP", trip |-> None, number |-> [year |-> today, sequence |-> k]]
    OBVIOUS
  <2>6. work' = [work EXCEPT ![w] = r] /\ UNCHANGED trip
    BY <1>7, <2>1, <2>3, <2>5 DEF create_trip, Prepare, next_trip_no
  <2>7. work'[w] = r /\ \A v \in Workers : v # w => work'[v] = work[v]
    BY <2>6 DEF NumberInv, WorkTypeOK
  <2>8. r.number.sequence <= c + 1
    BY <2>4, <2>5
  <2>9. ASSUME NEW v \in Workers, ~Idle(v)', work'[v].op = "TRIP"
        PROVE  work'[v].number.sequence <= Cardinality(Taken) + 1
    <3>1. CASE v = w
      BY <1>2, <2>7, <2>8, <3>1
    <3>2. CASE v # w
      BY <2>7, <2>9, <3>2 DEF NumbersAreFew, Idle
    <3> QED
      BY <3>1, <3>2
  <2> QED
    <3>1. TripNos' = TripNos /\ Taken' = Taken
      BY <1>6, <2>6
    <3>2. \A n \in TripNos' : n.sequence <= Cardinality(Taken')
      BY <3>1 DEF NumbersAreFew
    <3> QED
      BY <2>9, <3>1, <3>2 DEF NumbersAreFew
<1>8. ASSUME NEW w \in Workers, NEW t \in TripIds, delete_trip(w, t) \/ create_report(w, t)
      PROVE  NumbersAreFew'
  <2>1. PICK op, n : op \in {"DELETE", "REPORT"} /\ Prepare(w, op, t, n)
    BY <1>8 DEF delete_trip, create_report
  <2>2. PICK r : r = [op |-> op, trip |-> t, number |-> n]
    OBVIOUS
  <2>3. work' = [work EXCEPT ![w] = r] /\ r.op # "TRIP" /\ UNCHANGED trip
    BY <2>1, <2>2 DEF Prepare
  <2>4. work'[w] = r /\ \A v \in Workers : v # w => work'[v] = work[v]
    BY <2>3 DEF NumberInv, WorkTypeOK
  <2> QED
    BY <1>6, <2>3, <2>4 DEF NumbersAreFew, Idle
<1>9. ASSUME NEW w \in Workers, CommitTrip(w) PROVE NumbersAreFew'
  <2>1. PICK n \in Number : n = work[w].number /\ n.sequence <= c + 1
    BY <1>2, <1>9, WorkFields DEF CommitTrip, NumberInv, NumbersAreFew
  <2>2. PICK t \in TripIds :
          /\ trip[t] = None
          /\ trip' = [trip EXCEPT ![t] = [trip_no |-> n, status |-> "DRAFT"]]
    BY <1>9, <2>1 DEF CommitTrip
  <2>3. PICK row : row = [trip_no |-> n, status |-> "DRAFT"]
    OBVIOUS
  <2>4. row # None /\ row.trip_no = n
    BY <2>3, NoRows DEF TripStatuses
  <2>5. trip'[t] = row /\ \A s \in TripIds : s # t => trip'[s] = trip[s]
    BY <2>2, <2>3 DEF NumberInv, TypeOK
  <2>6. Taken' = Taken \cup {t} /\ t \notin Taken
    BY <2>2, <2>4, <2>5 DEF Taken
  <2>7. Cardinality(Taken)' = c + 1
    BY <1>1, <1>2, <2>6, FS_AddElement
  <2>8. TripNos' \subseteq TripNos \cup {n}
    BY <2>4, <2>5 DEF TripNos, Exists
  <2>9. \A m \in TripNos' : m.sequence <= c + 1
    BY <1>3, <2>1, <2>8
  <2>10. ASSUME NEW v \in Workers, ~Idle(v)', work'[v].op = "TRIP"
         PROVE  work'[v].number.sequence <= c + 2
    <3>1. work'[v] = work[v] /\ ~Idle(v)
      BY <1>9, <2>10 DEF CommitTrip, Done, Idle, NumberInv, WorkTypeOK
    <3>2. work[v].number.sequence \in Nat /\ work[v].number.sequence <= c + 1
      BY <1>2, <2>10, <3>1, WorkFields DEF NumbersAreFew, NumberInv, Number
    <3> QED
      BY <3>1, <3>2
  <2> QED
    BY <2>7, <2>9, <2>10 DEF NumbersAreFew
<1>10. ASSUME NEW w \in Workers, CommitDeletion(w) PROVE NumbersAreFew'
  <2>1. PICK q \in TripIds : q = work[w].trip
    BY <1>10, WorkFields DEF CommitDeletion, NumberInv
  <2>2. trip' = [trip EXCEPT ![q] = Gone] /\ Exists(q)
    BY <1>10, <2>1 DEF CommitDeletion
  <2>3. trip'[q] = Gone /\ \A s \in TripIds : s # q => trip'[s] = trip[s]
    BY <2>2 DEF NumberInv, TypeOK
  <2>4. TripNos' \subseteq TripNos /\ Taken' = Taken
    BY <2>2, <2>3, NoRows DEF TripNos, Exists, Taken
  <2> QED
    BY <1>5, <1>10, <2>4 DEF CommitDeletion
<1>11. ASSUME NEW w \in Workers, CommitReport(w) \/ Rollback(w) PROVE NumbersAreFew'
  BY <1>5, <1>6, <1>11 DEF CommitReport, Rollback
<1>12. ASSUME NEW t \in TripIds, NEW target \in TripStatuses, change_status(t, target)
       PROVE  NumbersAreFew'
  <2>1. PICK row : row = [trip[t] EXCEPT !.status = target]
    OBVIOUS
  <2>2. Exists(t) /\ trip' = [trip EXCEPT ![t] = row] /\ UNCHANGED work
    BY <1>12, <2>1 DEF change_status
  <2>3. row.trip_no = trip[t].trip_no /\ row \notin {None, Gone}
    <3>1. trip[t] \in [trip_no : Number, status : TripStatuses]
      BY <2>2, TripRow DEF NumberInv
    <3>2. row \in [trip_no : Number, status : TripStatuses] /\ row.trip_no = trip[t].trip_no
      BY <1>12, <2>1, <3>1
    <3> QED
      BY <3>2, NoRows
  <2>4. trip'[t] = row /\ \A s \in TripIds : s # t => trip'[s] = trip[s]
    BY <2>2 DEF NumberInv, TypeOK
  <2>5. Taken' = Taken
    BY <2>2, <2>3, <2>4 DEF Taken, Exists
  <2>6. TripNos' \subseteq TripNos
    <3> SUFFICES ASSUME NEW s \in TripIds, Exists(s)' PROVE trip'[s].trip_no \in TripNos
      BY DEF TripNos
    <3>1. Exists(s) /\ trip'[s].trip_no = trip[s].trip_no
      BY <2>2, <2>3, <2>4 DEF Exists
    <3> QED
      BY <3>1 DEF TripNos
  <2> QED
    BY <1>4, <2>2, <2>5, <2>6
<1>13. CASE NewYear \/ UNCHANGED vars
  BY <1>4, <1>6, <1>13 DEF NewYear, vars
<1> QED
  BY <1>7, <1>8, <1>9, <1>10, <1>11, <1>12, <1>13 DEF Next

\* While fewer than 99990 trips are ever created - so long the text order is
\* modelled, and no number sorts after 9999 - the number that is computed is free
\* unless its year has both 9999 and 10000 (next_trip_no, next_report_no: the
\* maximum is of texts).
THEOREM NumbersAreFreeUpToTheWidth ==
  ASSUME IsFiniteSet(TripIds), Cardinality(TripIds) < Base * (Limit - 1)
  PROVE  Spec => []NextNumberIsFree
<1>1. Init => NumbersAreFew
  BY DEF Init, NumbersAreFew, TripNos, Exists, Idle
<1>2. NumberInv /\ NumbersAreFew /\ [Next]_vars => NumbersAreFew'
  BY FewStep
<1>3. NumberInv /\ NumbersAreFew => NextNumberIsFree
  <2> SUFFICES ASSUME NumberInv, NumbersAreFew, NEW numbers \in {TripNos, ReportNos}, NEW y \in Years
               PROVE  next_no(Sequences(numbers, y)) \in Sequences(numbers, y)
                        <=> {Limit - 1, Limit} \subseteq Sequences(numbers, y)
    BY DEF NextNumberIsFree
  <2>1. PICK k \in Nat : k = Cardinality(TripIds) /\ k < Base * (Limit - 1)
    BY FS_CardinalityType
  <2>2. ASSUME NEW T \in SUBSET TripIds PROVE Cardinality(T) \in Nat /\ Cardinality(T) <= k
    BY <2>1, FS_Subset, FS_CardinalityType
  <2>3. Sequences(TripNos, y) \in SUBSET (1 .. k)
    <3>1. Cardinality(Taken) \in Nat /\ Cardinality(Taken) <= k
      BY <2>2 DEF Taken
    <3>2. \A n \in TripNos : n.sequence \in Nat /\ n.sequence > 0 /\ n.sequence <= Cardinality(Taken)
      BY NumbersType DEF NumberInv, TypeOK, NumbersAreFew, Number
    <3>3. \A n \in TripNos : n.sequence \in 1 .. k
      BY <3>1, <3>2
    <3> QED
      BY <3>3 DEF Sequences
  <2>4. Sequences(ReportNos, y) \in SUBSET (1 .. k)
    <3>1. Count(y) \in Nat /\ Count(y) <= k
      BY <2>2 DEF Count, OfYear
    <3>2. Sequences(ReportNos, y) = 1 .. Count(y)
      BY DEF NumberInv, ReportNumbersHaveNoGaps, Count, OfYear
    <3> QED
      BY <3>1, <3>2
  <2> QED
    BY <2>1, <2>3, <2>4, FreeNumber
<1> QED
  BY <1>1, <1>2, <1>3, NumbersCorrect, PTL DEF Spec
=============================================================================
