------------------------------ MODULE Matching -------------------------------
(***************************************************************************)
(* Corporate cards and their transactions: the administration of cards     *)
(* (services/admin/cards.py), the list of transactions (services/cards.py),*)
(* the candidates for a report (services/matching.py and                   *)
(* list_match_candidates in services/expenses.py) and the items that take  *)
(* a transaction into a report.                                            *)
(*                                                                         *)
(* Moments are hours since a midnight in UTC; a date is a number of days.  *)
(* Transactions are delivered with the database and never change.          *)
(***************************************************************************)
EXTENDS BiztripRules, Integers, SequencesExt

CONSTANTS
  Users,
  Cards,         \* primary keys the card table may hand out
  Transactions,  \* primary keys, which also order the transactions
  Reports,
  Owner,         \* [Reports -> Users]
  Trip,          \* [Reports -> [start, end]], the dates of the trip of a report
  Deliveries,    \* the transaction tables the database may be delivered with
  FirstCards,    \* the card table it is delivered with
  Workers,       \* concurrently running requests
  MaxItems       \* bound: a report takes an item only below this many

TransactionRow == [card : Cards, approved_at : Int, is_cancelled : BOOLEAN]

CardRow == [user_id : Users, is_active : BOOLEAN]

ASSUME MatchingAssumption ==
  /\ Transactions \subseteq Nat
  /\ Owner \in [Reports -> Users]
  /\ Trip \in [Reports -> [start : Int, end : Int]]
  /\ \A r \in Reports : Trip[r].start <= Trip[r].end
  /\ Deliveries \subseteq [Transactions -> TransactionRow]
  /\ FirstCards \in [Cards -> CardRow \cup {None}]
  /\ \A d \in Deliveries, t \in Transactions : FirstCards[d[t].card] # None
  /\ None \notin Transactions \cup CardRow
  /\ MaxItems \in Nat

VARIABLES
  card,    \* corporate_card table: id -> row, or None
  txn,     \* card_transaction table
  status,  \* expense_report.status
  items,   \* the card_transaction_id of each item of a report, oldest first
  work     \* the item a running request has checked and is about to write

vars == <<card, txn, status, items, work>>

-----------------------------------------------------------------------------
(* Dates                                                                   *)

Day == 24

\* The offset of Asia/Seoul.
KST == 9

midnight_utc(day) == day * Day

local_date(moment) == (moment + KST) \div Day

_start_of(day) == midnight_utc(day) - KST

-----------------------------------------------------------------------------
(* The transactions of a user, and the candidates for a report             *)

load_my_cards(u) == {c \in Cards : card[c] # None /\ card[c].user_id = u}

TransactionsOf(u) ==
  LET mine == load_my_cards(u)
  IN  {t \in Transactions : txn[t].card \in mine}

\* Mutant: NULL is not kept out of the subquery.
TakenIds_withNull == UNION {ToSet(items[r]) : r \in Reports}

\* The subquery of the unsettled filter: the items that have a transaction.
TakenIds == (UNION {ToSet(items[r]) : r \in Reports}) \ {None}

\* SQL: NOT IN a list with a NULL is never true.
NotIn(x, S) == None \notin S /\ x \notin S

\* from and to are dates; the status of the reports is not looked at.
list_card_transactions(u, from, to, unsettled) ==
  {t \in TransactionsOf(u) :
     /\ ~txn[t].is_cancelled
     /\ txn[t].approved_at >= _start_of(from)
     /\ txn[t].approved_at < _start_of(to + 1)
     /\ unsettled => NotIn(t, TakenIds)}

WINDOW_DAYS == 1

\* Mutant: the prefetch is as wide as the window, in UTC.
_FETCH_MARGIN_asWindow == 1

_FETCH_MARGIN_DAYS == 2

\* What the query reads: bounds in UTC, a day wider than the window.
Fetched(r) ==
  {t \in TransactionsOf(Owner[r]) :
     /\ txn[t].approved_at >= midnight_utc(Trip[r].start - _FETCH_MARGIN_DAYS)
     /\ txn[t].approved_at < midnight_utc(Trip[r].end + _FETCH_MARGIN_DAYS + 1)}

TakenBy(r) == ToSet(items[r]) \ {None}

\* Taken by another report that is SUBMITTED or further.
Locked(r) ==
  UNION {TakenBy(q) : q \in {x \in Reports \ {r} : status[x] \in {"SUBMITTED", "APPROVED"}}}

Earlier(t, u) ==
  \/ txn[t].approved_at < txn[u].approved_at
  \/ txn[t].approved_at = txn[u].approved_at /\ t < u

\* The rule, by the dates in KST.
in_window(start, end, transactions, excluded) ==
  {t \in transactions \ excluded :
     /\ ~txn[t].is_cancelled
     /\ local_date(txn[t].approved_at) \in start - WINDOW_DAYS .. end + WINDOW_DAYS}

\* picked.sort(): by approval, then by id.
InOrder(picked) ==
  CHOOSE s \in [1 .. Cardinality(picked) -> picked] :
    \A i, j \in DOMAIN s : i < j => Earlier(s[i], s[j])

find_candidates(start, end, transactions, excluded) ==
  InOrder(in_window(start, end, transactions, excluded))

list_match_candidates(r) ==
  find_candidates(Trip[r].start, Trip[r].end, Fetched(r), Locked(r))

-----------------------------------------------------------------------------
(* Items                                                                   *)

Idle(w) == work[w] = None

\* EXPENSE_EDITABLE_STATUSES
Editable(r) == status[r] \in {"DRAFT", "REJECTED"}

\* A transaction of the owner, not cancelled, not in this report.
_assert_usable_transaction(r, t) ==
  /\ t \in TransactionsOf(Owner[r])
  /\ ~txn[t].is_cancelled
  /\ t \notin TakenBy(r)

\* None: an item without a card transaction.
add_item(w, r, t) ==
  /\ Idle(w)
  /\ Editable(r)
  /\ t # None => _assert_usable_transaction(r, t)
  /\ Len(items[r]) < MaxItems
  /\ work' = [work EXCEPT ![w] = [report |-> r, transaction |-> t]]
  /\ UNCHANGED <<card, txn, status, items>>

\* Mutant: the table has no unique constraint.
uq_expense_item_report_txn_not(r, t) == TRUE

\* The unique constraint on report and transaction; NULLs do not clash.
uq_expense_item_report_txn(r, t) == t = None \/ t \notin TakenBy(r)

CommitItem(w) ==
  /\ ~Idle(w)
  /\ uq_expense_item_report_txn(work[w].report, work[w].transaction)
  /\ items' = [items EXCEPT ![work[w].report] = Append(@, work[w].transaction)]
  /\ work' = [work EXCEPT ![w] = None]
  /\ UNCHANGED <<card, txn, status>>

Rollback(w) ==
  /\ ~Idle(w)
  /\ work' = [work EXCEPT ![w] = None]
  /\ UNCHANGED <<card, txn, status, items>>

delete_item(r, i) ==
  /\ Editable(r)
  /\ items' = [items EXCEPT ![r] = RemoveAt(@, i)]
  /\ UNCHANGED <<card, txn, status, work>>

\* Who may do it, and when a report is complete, is the matter of Expenses.
change_status(r, target) ==
  /\ <<status[r], target>> \in EXPENSE_ALLOWED_TRANSITIONS
  /\ target = "SUBMITTED" => items[r] # <<>>
  /\ status' = [status EXCEPT ![r] = target]
  /\ UNCHANGED <<card, txn, items, work>>

-----------------------------------------------------------------------------
(* The administration of cards                                             *)

create_card(c, u, active) ==
  /\ card[c] = None
  /\ card' = [card EXCEPT ![c] = [user_id |-> u, is_active |-> active]]
  /\ UNCHANGED <<txn, status, items, work>>

\* The owner is not in the schema of the update.
CardUpdates(row) == [user_id : {row.user_id}, is_active : BOOLEAN]

update_card(c) ==
  /\ card[c] # None
  /\ \E row \in CardUpdates(card[c]) : card' = [card EXCEPT ![c] = row]
  /\ UNCHANGED <<txn, status, items, work>>

\* What PostgreSQL requires: no transaction has a foreign key to the card.
Unreferenced(c) == \A t \in Transactions : txn[t].card # c

delete_card(c) ==
  /\ card[c] # None
  /\ Unreferenced(c)
  /\ card' = [card EXCEPT ![c] = None]
  /\ UNCHANGED <<txn, status, items, work>>

Init ==
  /\ card = FirstCards
  /\ txn \in Deliveries
  /\ status = [r \in Reports |-> "DRAFT"]
  /\ items = [r \in Reports |-> <<>>]
  /\ work = [w \in Workers |-> None]

Next ==
  \/ \E w \in Workers :
       \/ \E r \in Reports, t \in Transactions \cup {None} : add_item(w, r, t)
       \/ CommitItem(w)
       \/ Rollback(w)
  \/ \E r \in Reports :
       \/ \E i \in DOMAIN items[r] : delete_item(r, i)
       \/ \E target \in ReportStatuses : change_status(r, target)
  \/ \E c \in Cards :
       \/ \E u \in Users, active \in BOOLEAN : create_card(c, u, active)
       \/ update_card(c)
       \/ delete_card(c)

Spec == Init /\ [][Next]_vars

-----------------------------------------------------------------------------
(* Properties                                                              *)

TypeOK ==
  /\ card \in [Cards -> CardRow \cup {None}]
  /\ txn \in [Transactions -> TransactionRow]
  /\ \A t \in Transactions : card[txn[t].card] # None
  /\ status \in [Reports -> ReportStatuses]
  /\ items \in [Reports -> Seq(Transactions \cup {None})]
  /\ \A w \in Workers : Idle(w) \/ work[w].report \in Reports

\* A transaction of the owner, from the day before the trip to the day after it,
\* that no other submitted report has.
Due(r, t) ==
  /\ card[txn[t].card].user_id = Owner[r]
  /\ ~txn[t].is_cancelled
  /\ txn[t].approved_at + KST >= midnight_utc(Trip[r].start - 1)
  /\ txn[t].approved_at + KST < midnight_utc(Trip[r].end + 2)
  /\ \A q \in Reports \ {r} : t \in TakenBy(q) => status[q] \in {"DRAFT", "REJECTED"}

\* The candidates are what the rule says in KST, in the order of their approval,
\* although the query reads by UTC and whatever other reports were submitted,
\* rejected and opened again.
CandidatesAreExact ==
  \A r \in Reports :
    LET offered == list_match_candidates(r)
    IN /\ ToSet(offered) = {t \in Transactions : Due(r, t)}
       /\ \A i, j \in DOMAIN offered : i < j => Earlier(offered[i], offered[j])

\* The date filters of the list and the dates of the matching are one calendar:
\* listing one day gives the transactions of that date, neither fewer nor those
\* of the night before.  What the picker offers as unsettled can be taken into
\* any report of the user, and nothing that could be is missing because some
\* items have no transaction.
ListsAreExact ==
  \A u \in Users, d \in {local_date(txn[t].approved_at) : t \in Transactions} :
    LET listed == list_card_transactions(u, d, d, FALSE)
        free(t) == \A r \in Reports : Owner[r] = u => _assert_usable_transaction(r, t)
    IN /\ listed = {t \in TransactionsOf(u) :
                      ~txn[t].is_cancelled /\ local_date(txn[t].approved_at) = d}
       /\ list_card_transactions(u, d, d, TRUE) = {t \in listed : free(t)}

ItemsAreTheOwners ==
  \A r \in Reports :
    /\ \A t \in TakenBy(r) :
         /\ card[txn[t].card].user_id = Owner[r]
         /\ ~txn[t].is_cancelled
    /\ \A i, j \in DOMAIN items[r] : items[r][i] = items[r][j] /\ items[r][i] # None => i = j

\* However requests overlap and cards are administered: an item is a
\* transaction of the report's owner that was not cancelled, the report has it
\* once, and its card is never gone.
ItemsInv == TypeOK /\ ItemsAreTheOwners

-----------------------------------------------------------------------------
(* A claim of the documents that does not hold                             *)

\* The plan of the schema: the unique constraint keeps a card transaction from
\* being counted in several items.
CountedOnce == \A q, r \in Reports : q # r => TakenBy(q) \cap TakenBy(r) = {}
=============================================================================
