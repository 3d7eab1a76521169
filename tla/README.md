# Verification of SKON BizTrip

SKON BizTrip is a business-trip and expense-report service: a FastAPI/SQLAlchemy
backend over PostgreSQL (`src/backend`), a SvelteKit front end (`src/frontend`)
and a small deployment (`src/docker-compose.yml`, `src/scripts`).  This directory
holds TLA+ modules that model the backend's services and the browser's session, the
TLC configurations that check them, and theorems that TLAPS checks for every value of
the constants.

Contents: 1 the system, 2 what is hard in it, 3 the modules, 4 the runs,
5 where code and documents part, 6 the theorems, 7 what is assumed and left out, 8 plan.

## 1. The system and its parts

| Part | State | Operations | Made correct by |
|---|---|---|---|
| trip service, `services/trips.py` | `trip` | create, update, delete, submit, approve, reject, reopen, complete, and `settle_trip_for_report` for the expense service | status diagram of the design (5.4); only the owner or the trip's approver moves it; dates in order; columns agree with the status |
| trip and report rules, `trip_status.py`, `trip_rules.py`, `expense_rules.py` | none | transition and actor tables, editable/deletable sets, visibility, total limit | every transition has an actor; nobody decides on a trip of their own |
| history, `services/history.py` | `activity_log`, `notification` | `record_transition`, `record_activity` | an unbroken timeline, written with the change, the decider was notified |
| expense service, `services/expenses.py` | `expense_report`, `expense_item` | create, update, submit, approve, reject, reopen; add, update, delete item | total = sum of the items; frozen from submission to decision; approval and settlement together |
| card matching, `services/matching.py`, `services/cards.py` | none (reads cards, transactions, items) | candidates for a report, the list of transactions with its filters | what is offered is what the rule says, in local dates, and can be taken |
| users, `services/admin/users.py` | `user` | create, approve, reject, update (role, manager, department, active flag), set a password | nobody manages themselves; an administrator remains; an ACTIVE account is complete |
| signup and login, `services/signup.py`, `services/user_status.py`, `routers/auth.py`, `security.py`, `deps.py` | `user`; tokens that are out (JWT, no server state) | apply, apply again, log in, check a token | one application per address, decided once; no token for an account nobody approved |
| API keys, `services/api_keys.py`, `services/api_scopes.py`, `deps.py` | `api_key` | issue, revoke, authenticate with scopes | limit of active keys; a revocation is final; a key changes only what its scopes name |
| numbering, `services/numbering.py` | none (reads max) | next document number of a year | numbers are unique, and that of a report stays with its trip |
| master data, `services/admin/{centers,codes,departments}.py` | centers, codes, departments | create, change, deactivate, delete | nothing that is referenced is deleted |
| cards, `services/admin/cards.py` | cards; transactions are delivered | create, change, delete | a card keeps its holder, a transaction its card |
| front end, `src/frontend` | session store of each tab, local storage, list and form stores | log in, restore, fetch, write, sign out; answers that are late or never come | the user shown is the one of the token; nothing waits for good |
| start-up, seed, configuration, deployment | schema | - | - |

How they interact: a router calls one service function; the function runs in one
transaction of one `AsyncSession`, calls the rules on the row it read, assigns
columns, calls `history` and flushes/commits.  The expense service calls the trip
service twice: it reads the trip when a report is created and submitted, and it
calls `settle_trip_for_report` when a report is approved, in its own transaction.
`user.manager_id`, changed by administrators, decides who becomes the approver at
the next submission.  Every authenticated request reads `user.is_active` and
`user.role` again: the token carries the account's id and its expiry only.  Sharing is through the database only: there is no queue, no
cache, no background job.

## 2. What is hard

* **Check then act.**  Nothing is read with `FOR UPDATE`, there is no version
  column, and PostgreSQL runs at READ COMMITTED.  Between the read that the rules
  are applied to and the UPDATE, the handler awaits, and other requests commit.
* **Derived data.**  `total_amount_krw` is recomputed by each request from what
  that request sees, and written as an absolute value.
* **Two diagrams, one transaction.**  The approval of a report settles its trip.
  Whether the two stay together depends on every other writer of the trip's status.
* **Cycles.**  A rejected trip or report is reopened, edited, and submitted again,
  perhaps to another approver: stale columns of the earlier round must go.
* **Two records of one fact.**  The timeline repeats what the status column says.
* **Two columns for one question.**  Whether an account may be used is `status` *and*
  `is_active`; login looks at both, the check of a token at one, and several handlers
  write one without the other.
* **Dates.**  A trip is completed only after its last day.  Card transactions are moments
  in UTC, everything shown and matched is a date in Seoul, nine hours ahead.
* **References without a foreign key.**  Documents name centers and codes by their text,
  users a department by its id; the services count references, then delete.
* **The largest plus one.**  Numbers are the maximum of texts, read before the insert.
* **Two tables for one route.**  The scope of a route is declared apart from its router.
* **Answers out of order.**  The browser has several requests and several tabs under way;
  an answer finds another session than the one it was asked in, or never comes.

`PROJECT.json` lists these as "hazards", each at the line where it bites.

## 3. The modules

| Module | Models | About |
|---|---|---|
| `BiztripRules` | the three rule modules | constant tables and predicates; `ActorTablesComplete` is the guard that runs at import |
| `Trips` | trip service, history, notifications, `manager_id`, the calendar | the core |
| `TripLifecycle` | design 5.4 | abstract specification of one status column |
| `Expenses` | expense service, composed with `Trips` (EXTENDS) | reports, items, total, settlement |
| `Settlement` | design 5.4 and 5.5 joined | abstract specification of the two status columns |
| `Accounts` | signup, login, token check, the account part of user administration | one module of its own: it shares no column with `Trips` |
| `SignupLifecycle` | signup design, section 3 | abstract specification of one account's status |
| `ApiKeys` | keys, scope table, the way of a request into a handler | the other half of `deps.py` |
| `MasterData` | departments, centers, codes, and what documents name of them | one table of rows and references |
| `Matching` | cards, transactions, candidates, items that take a transaction | the algorithms against their definition, and the rows they read |
| `Numbering` | `next_trip_no`, `next_report_no` and the two inserts | numbers as texts |
| `AuthStore` | session store, layout guard, `AdminResource.run`, `authRequest` | the browser: tabs, storage, requests; the one module with liveness |
| `MCTrips`, `MCExpenses`, `MCAccounts`, `MCApiKeys`, `MCMasterData`, `MCMatching`, `MCNumbering`, `MCAuthStore` | - | symmetry sets and values of the instances |
| `TripsProofs`, `ExpensesProofs`, `AccountsProofs`, `ApiKeysProofs`, `MasterDataProofs`, `MatchingProofs`, `NumberingProofs`, `AuthStoreProofs` | - | the theorems, one module for each of the eight; `ExpensesProofs` extends `TripsProofs` as `Expenses` extends `Trips` |

### Trips

`trip` is the table (`None` = no row), `log[t]` the activity-log rows of a trip in
commit order, `managerOf` the column `user.manager_id`, `today` the server's date,
and `work[w]` what a running request has decided to write.

A request takes two steps.  The first is named after the handler (`submit_trip`,
`approve_trip`, ...): its conjuncts are the handler's checks in the order of the
code, on the row as it is then, and `Begin` stores the statements it will send.
The second is `CommitInsert`, `CommitUpdate`, `CommitLogOnly`, `CommitDelete` or
`Rollback`.  Refused requests change nothing and have no action.

* The **statement is what SQLAlchemy emits**, not an assignment of a row: `Dirty`
  drops a column whose new value equals the loaded one, and `Flushed` merges the
  rest into the row *as it is at commit*.  Several of the properties stand or fall
  with this.
* The UPDATE takes the row lock and holds it until COMMIT, so UPDATE, log row and
  COMMIT are one step.  An UPDATE that matches no row raises `StaleDataError`:
  `CommitUpdate` is then disabled and only `Rollback` is left.  A PATCH without a
  changed column sends no UPDATE and succeeds on a deleted trip (`CommitLogOnly`).
* `Rollback` also stands for every other way a request ends without effect: a
  constraint, a lost connection, a killed process.
* The reads of one request are one step.  Authentication reads the user before the
  trip, so `submit_trip` may in the code use a manager some milliseconds older than
  in the model; since `update_user` may happen immediately after the model's step
  and the value lands in the row either way, no property distinguishes the two.
* Timestamps and reject reason are "is it set"; a timestamp always differs from the
  one loaded, so a set one is never dropped from the statement.
* A deleted id is never reused (it comes from a sequence): `NextTripId`.

`Isolated = TRUE` restricts the model to requests that do not overlap on the same
trip.  It serves to say precisely which promises are kept as long as requests come
one after another, and which in every interleaving.

### Expenses

`report[t]` is the report of trip `t` (`trip_id` is unique and reports are never
deleted), `item[i]` the items, `report_log[t]` the log rows of the report, and
`report_work[w]` the running request.  The requests that decide on the loaded report
alone (create, update, approve, reject, reopen) have two steps, as in `Trips`.  The
requests that recompute the total (submit, add, update, delete item) have three:
`Load` keeps what was read; then the item is flushed and `_recalc_total` adds up the
committed items and the request's own; then commit.  `ItemLocked` is the row lock of
a flushed item.  `CommitReportInsert` is guarded by the unique constraint and the
foreign key, `CommitBeside` by the foreign key that keeps a trip with a report from
being deleted.  `CommitReportUpdate` writes the report, its item, the log row and, for
an approval, the trip (`SettleTrip`) at once, since they are one transaction.

In `Trips` alone, `settle_trip_for_report` is an action of its own with any trip the
rules allow: what `Trips` shows about it holds for any expense service that calls it.
`Expenses` does not use that action: its settlement is part of the approval.

### Accounts

`user[e]` is the row of the account with the e-mail `e` (unique, and never deleted),
`session` the accounts for which a token that has not expired is out, `work[w]` what a
running request will write.  Requests have two steps, as in `Trips`:

| Code | Action |
|---|---|
| `signup`, the branch without a row; `_resubmit` | `signup`, `_resubmit` |
| `login` (after the password check), expiry of the JWT | `login`, `TokenExpires` |
| `create_user`, `approve_user`, `reject_user`, `update_user` | the same names, under `AdminUser(a)`: a token whose account is active and an administrator now |
| `session.commit()` | `CommitInsert`, `CommitUpdate` |
| refusal, constraint, lost connection | `Rollback` |

* Again a statement names only the columns whose value changed.  This decides which
  columns the last of two overlapping decisions writes, and hence what it leaves.
* `TakenNumbers` serves twice: `assert_unique` reads it when the request decides, and
  the unique constraint applies at the commit, where NULLs do not collide.
* `login` only reads, so it is one step.  There is no logout in the backend.
* `EMPLOYEE` stands for `MANAGER` too: only the test for `ADMIN` matters here.
* The check of the token and the reads of the handler are one step; the code reads the
  administrator's row first and the target's row next.  `update_user` on oneself reads
  the same row of the same session, so the comparison is not affected.
* Department, position, name, password and manager are left out: they are columns the
  status, the role and the flag never depend on (the manager is in `Trips`).
* A request authenticated with an API key reads the flag of its owner: see `ApiKeys`.

### ApiKeys

`api_key[k]` is a row, `active` the flag of the users, `now` the clock in days,
`written` the kind of table the last commit of a handler changed, `work[w]` the request.

| Code | Action |
|---|---|
| `authenticate_key`: the row, its state, its owner | `authenticate_key` (stage `FOUND`) |
| `get_principal`: `session.commit()` of the use | `get_principal` (stage `IN`) |
| `_authenticate_jwt` | the same name, straight to `IN` |
| `_enforce_scope`, `require_role`, `get_jwt_principal` | guards of every handler (`Admitted`) |
| `create_key`, `revoke_key`, and their commits | `create_key`, `CommitCreate`, `revoke_key`, `CommitRevoke` |
| a handler of another router | `Handle` |

* The use is committed before the handler, so between the check of a key and the end of
  its request a revocation may come: the request ends, and its UPDATE of `last_used_at`
  hits a revoked row.  `RevokedForGood` says that this brings nothing back.
* `Routes` are kinds of route: method class (`GET`, or `POST` for all others) and the kind
  of table.  `required_scope_for` is the table by kind; the individual paths, and the
  start-up check that none is missing, are left out.
* `KeysKeepToTheirScopes` compares the table with what the handlers change, stated
  independently (`MayChange`).

### MasterData

One function `row` holds every table: a row is active or not and names other rows.
`past` are ids handed out before (departments and groups are known by id; centers and
codes by their text, which may be used again), and `calm` remembers whether two requests
have overlapped so far, so that one run asks both kinds of question.

* `ForeignKeys` are checked at commit; `_REFERENCES` (the centers) and the users of a
  department are only looked at in the first step.
* The update of a document sends one column; see the comment of `update_document`.
* The delivered trips have a cost center, which no request sets (`Init`).  A report takes it
  over unchecked (`create_report`), the way the code does.

### Matching

`txn` is the delivered table of transactions, which no code of the service changes;
`items[r]` the transaction of each item, `None` for an item without one.  Moments are hours
since a midnight in UTC, so both calendars are arithmetic.  `find_candidates` and
`list_card_transactions` are translated as queries; `CandidatesAreExact` and
`ListsAreExact` compare them with definitions in local time written without the queries'
bounds, in every state the items and the reports can come to.  The SQL rule that
`NOT IN` a list with a NULL is never true is `NotIn`.  `InOrder` is the sort, written as
the sequence it looks for: the sort of the community modules ends in an operator of TLC
that the proof system cannot expand.

### Numbering

A number is a year and a sequence.  What `func.max()` compares is its decimal text, padded
to `Width`: `TextBefore` is the order of these texts, in arithmetic.  Below `Limit` (10000)
and from it on texts are as long as each other and ordered as numbers; between the two,
the shorter one is compared as if a zero followed it.  `MCNumbering` has the texts digit by
digit as well, and an assumption by which TLC compares both orders for every pair of
numbers the instance can meet.  `max` is the largest text.  `Base` and `Width` are
constants, so that a small instance passes the boundary the code has between 9999 and
10000.  Who may delete or report a trip is in `Trips` and `Expenses`; here only its status
matters.  `date.today()` is the server's date.

### AuthStore

`store[tab]` is what the scripts of a tab hold (token, user, `loading`, the layout's
`restored`, the page, the busy request of its resource), `stored` the local storage that
all tabs share, `request[q]` a request that is under way, `issued` and `expired` the
tokens of the server.

* JavaScript runs from one `await` to the next without interruption, so that is a step.
  Answers come in any order; a request may fail instead (`answered = FALSE`).
* A page that is loaded again forgets the answers to earlier requests of its tab; a page
  that is left (`goto`) does not: the answer still ends the session it finds.
* A tab that is still restoring is not loaded once more (a bound).
* The rows of a list and the badge are data: no property depends on them.

### Abstract specifications

`TripLifecycle` is the diagram of one trip; `lifecycle` in `Trips` is the refinement
mapping (`NEW` before the insert, `DELETED` after the deletion).  `Settlement` is the
pair of diagrams with the one joint step and the conditions each puts on the other.
`SignupLifecycle` is the diagram of one account, with `NEW` before its row exists.
Without overlap the code implements all three (`ImplementsLifecycle`,
`ImplementsSettlement`, `ImplementsSignup`): TLC checks it in the serial runs, and section 6
proves it.  What `Settlement` implies is then proved of the abstract specification and
carried down (`ReportAndTripTogether`).

## 4. The runs

| Run | Question | Instance |
|---|---|---|
| `trips_serial` | With requests one after another on a trip: does the timeline form one walk that ends at the status, do the columns say what the status says, are dates in order, is the diagram implemented? | 3 users, 1 trip, 2 days, `MaxLog` 8 |
| `trips_concurrent` | With two overlapping requests: who can have made each step, was a decider asked, has every status change its log row and every recorded change its row? | 3 users, 2 requests, `MaxLog` 5 |
| `expenses_serial` | With requests one after another: is the total the sum, is a submitted report complete and frozen, do report and trip move together, do columns agree, is `Settlement` implemented? | 2 users, 2 items, amounts 1-2, limit 3, `MaxLog` and `MaxReportLog` 6 |
| `expenses_concurrent` | With overlapping requests: was whoever decided asked, and is each approval exactly one settlement of a trip that had been completed? | 2 users, 1 trip request, 2 report requests |
| `accounts_serial` | With requests one after another: is the signup diagram implemented, does an administrator who can sign in remain, is whoever works with a token ACTIVE? | 3 accounts, 4 numbers, 1 request |
| `accounts_concurrent` | With two overlapping requests: has every ACTIVE account its number, and had every holder of a token been approved or created? | 2 accounts, 3 numbers, 2 requests |
| `keys` | With two overlapping requests: is the limit passed by no more than the overlap, is a revocation final, is every use on record, does a key keep to its scopes? | 1 user, 3 keys, limit 1, 1 day |
| `masterdata` | Does what has a foreign key ever dangle, and what has none, as long as requests do not overlap? | one row of each of the nine tables, 2 departments, at most 3 rows at a time, 2 requests |
| `matching` | Are candidates and lists exact, is an item always a transaction of its owner, once? | 2 users, 2 cards, 2 reports, 3 transactions in 3 deliveries, 2 requests |
| `matching_double` | A claim of the documents, refuted (section 5) | the same |
| `numbering` | With two overlapping requests: no gaps, numbers of reports for good, and exactly when is the computed number taken? | 3 trips, 2 years, one digit to the base 3 |
| `authstore` | Is the user shown the one of the token, does a removed token stay removed, does every wait end, does an expired session? | 2 tabs, 2 tokens of 2 users, 2 requests |

Why the bounds are enough.

* *One trip.*  No handler reads or writes a second trip, and `report`, `item` and the
  log rows hang on one trip; two trips would multiply the states and add no
  interaction.  Document numbers, which do connect trips, are in `Numbering`.
* *Users.*  An owner, an approver and a third user: the manager can change between
  two rounds, and there is someone who must be refused.  The expense runs have two.
* *Admins = {}* in the runs: an administrator sees more rows, and every changing
  operation then asks for the owner or the approver; `Admins` is any subset of the
  users in the theorems.
* *Accounts*: the delivered administrator, a second one who may administer the first,
  and in the serial run a third, so that two administrators can decide on one
  applicant.  One number more than accounts leaves a free one to every approval, and a
  taken one to refuse.  Serial means one request at a time in the whole service.
* *MaxLog 8*: create, submit, reject, reopen, edit, submit, approve, complete - a
  full second round - fits.  *MaxLog 5* with two requests: the fifth row may be the
  second half of an overlap after create, submit, reject, reopen.  The bound is a
  guard of `Begin` (and `MayStart`): requests that are running may still commit, so
  the log may exceed it by the number of requests.
* *LastDay*: 2 days give ordered, equal and inverted date ranges, and `today` runs to
  `LastDay + 1`, the first day on which the last trip may be completed.
* *Items and amounts*: two items of 1 or 2 with the limit 3 give sums below, at and
  above the limit, exclusions, and equal amounts.
* *MaxLog 4, MaxReportLog 6* in `expenses_concurrent`: the trip's part is create,
  submit, approve, complete, with the settlement beyond the bound as the second half
  of the approval.  The report's six rows hold create, edit, submit, reject, reopen, submit;
  and also create, edit, submit, approve, a second submission that overlapped the first and
  is written after the approval, and then an approval whose settlement fails.  That one
  must leave nothing behind: the mutant of `ApprovalsSettleCompletedTrips` keeps it.
* *Requests*: every known overlap needs two requests; users, requests and item ids are
  interchangeable, hence the symmetry sets.  No liveness is checked under symmetry.
* *Keys*: with limit 1, three keys are one in excess of the limit, one active and one
  revoked or expired.  The scope set has a read scope, the administration, and no write of
  trips, so that a refused, an admitted and a wrong write can all occur.
* *MaxRows 3*: a reference, what it names, and what that one names (a center, its
  department, the one above; a code, its group, a document) - longer chains repeat it.
* *Deliveries*: transactions at both ends of the window of a trip and one hour outside
  them, a cancelled one, two at the same moment, and one of another user.
* *Base 3, Width 1*: the numbers of a year are 1, 2, 10; with three trips the third is
  the first number beyond the width, and the next one is refused.
* *Two tabs, two tokens*: a late answer of an earlier session in the same tab and in the
  other one.  Two requests: one that is late and one of the new session.

**Deadlock** is checked in every run of `Trips` and `Expenses`, where a request that
runs can always roll back and an administrator can always change a manager, and in the
runs of `Accounts` with one request.  With two requests the accounts really can stop:
when every administrator was demoted or deactivated (section 5) and every address is
taken, no handler accepts anything any more, so these runs set `CHECK_DEADLOCK FALSE`.

In the other runs it is checked as well: a request can always roll
back, an account be suspended, and in the browser a page can always be opened.

**Fairness** is assumed in `AuthStore` only.  Weak fairness of `Settle(q)` for every
request: `fetch` resolves or rejects in the end (the browser's time-out at the latest),
and the continuation runs.  Weak fairness of `Guard(tab)`: an effect of the layout runs
when what it reads has changed.  Nothing is assumed of the user, who need not click, nor
of the server's answers, which may all be failures; `ExpiredSessionsEnd` therefore has
the premise that answers to the requests of the session keep coming.  The backend
promises nothing that must eventually happen - no request waits for another except on a
row lock, which is why no step of its models waits.

## 5. Where code and documents part

One is a run that TLC finishes with a counterexample; the quoted claim is in
`PROJECT.json`.

* `matching_double`: the plan of the schema calls the unique constraint on report and
  transaction the only device against counting a transaction twice.  It is per report:
  two reports of one user take the same transaction.  No overlap is needed.  The list of
  candidates filters what other reports have, but only once these are submitted, and
  `add_item` does not use it.

The others have the causes of section 2 and follow from the models; each was seen as a
counterexample when the serial property was checked with overlapping requests
(`Isolated = FALSE`, or two requests), and can be seen again that way:

* *Dates*: `trips.py:303-305` calls the check at the submission the last point that keeps
  inverted dates from an approver.  Two PATCHes that each check one date against the row
  they read, or a PATCH written after the submission, pass it (`TripsEndAfterTheyStart`).
* *Decisions*: an approval and a rejection that overlap (`trips.py:338`) are both written,
  logged and notified (`TimelineChain`).
* *Total*: `models/expense.py:59` says the stored total always equals the sum of the items.
  Two items added at the same time miss each other (`expenses.py:341`, `TotalIsSumOfItems`).
* *Settlement*: `expenses.py:695-696` says that no report is approved while its trip is
  COMPLETED.  A second `complete_trip`, read before the first was written, lands after the
  settlement (`ImplementsSettlement`).
* *Contents*: a change of a report may be written after its submission
  (`SubmittedReportsAreComplete`, `SubmittedReportsAreFrozen`).
* *Administrators*: `admin/users.py:197-199` refuses to demote oneself so that somebody
  remains.  Two who demote each other at the same time leave nobody (`AdminRemains`).
* *Applications*: a rejection written after an approval takes an account out of ACTIVE
  (`ImplementsSignup`).
* *Deletions*: a center or a department may be named by a document that was checked
  before the deletion and written after it (`NothingDangles` without `calm`).

Most of them share one cause (check then act) and would be removed by reading the row
`FOR UPDATE` or by a version column; `Isolated = TRUE` is the model of that repair for
trips and reports, and the serial runs show what it would give.  The administrators and
the deletions concern two rows: there the other row would have to be locked as well.

Without an overlap:

* `signup.py:53` and `enums.py:29-30` state that an account that is not ACTIVE has
  `is_active = false`.  `update_user` sets the flag whatever the status
  (`admin/users.py:218`).  Login looks at the status too, so such an account is not usable.
* Two rules for one word: `cards.py:36-37` and the design of the card picker
  (`docs/superpowers/specs/2026-08-20-trip-form-slim-card-picker-design.md:63-66`) say that
  `unsettled` is decided by the same criterion as the matching.  The list leaves out what
  any report has, the matching what a submitted or approved report has.
  `CandidatesAreExact` and `ListsAreExact` state what each one does.
* After 9999 the text maximum stays 9999: the next number is 10000, and once that exists
  every creation of the year is refused.  `NextNumberIsFree` says that this is the only case.
* `trips.py:274-275` says that the history of a deleted trip is CREATED and UPDATED rows
  only.  A trip that was submitted, rejected and reopened is a draft again and can be
  deleted, as `Trips` shows; its number may be given out again.
* `history.py:48-49` describes an administrator who approves a trip of their own in the
  demo data, which `admin/users.py:142` rules out by refusing to make anyone their own
  manager.
* A key limit of N is N + W - 1 with W requests at a time (`ActiveKeysAreLimited`).
* A 401 that arrives late ends the session it finds: a new one in the same tab, and the
  stored token of another tab, which then lives until its page is loaded again
  (`UserIsOfTheToken` holds throughout).  The busy guard of a screen is per instance: after
  leaving and coming back a second write may run beside the first.

## 6. The theorems

They hold for any number of users, administrators, trips, reports, items, accounts, keys,
rows, cards, transactions, requests, tabs, days and log rows: for every value of the
constants that the assumptions of the modules admit.  Every safety property, every action
property and every refinement that a passing run checks is stated by a theorem; the runs
show it on a small instance, and that the instance is not empty.

Two kinds of statement:

* *in every interleaving*: `Spec => []P`, with no hypothesis;
* *when requests do not overlap*: under `ASSUME Isolated` (trips and reports: requests on one
  trip do not overlap, those on different trips may) or `ASSUME Serial` (accounts: at most
  one request at a time).  These are the promises that overlapping requests break
  (section 5); the theorems say that overlap is the only thing that breaks them.

All have one form.  The property is not inductive: what reaches a table was decided by an
earlier step, on rows that have since moved on.  The inductive invariant therefore says, of
the tables *and of what every running request is about to write*, what the commit will need.

### TripsProofs

In every interleaving: `TypeCorrect`; `ActorsCorrect` (`ActorInv`), and from it
`StepsAreByTheirActor` and `DecidersWereAlwaysAsked`; `RecordsCorrect` (`RecordInv`), and
from it `ChangesAreRecorded`.  `ActorInv` says,
besides the two properties: nobody is their own manager; the owner column of a row is the
creator in its log, and a row has a log; the approver column of a row, if set, is not the
owner and was notified by an earlier SUBMITTED entry; and of pending work that an UPDATE
which sets the approver carries the SUBMITTED entry that notifies them, and an UPDATE with a
decision carries an actor who had been asked by an entry *already* in the log.  Since log
rows are only appended, facts of that last kind survive every other request's commit.

`ChangesAreRecorded` is the part of "row and log tell one story" that overlapping requests
keep: a PATCH never takes back the submission it overlaps, no status changes without a log
row, and the change that is recorded is the one the row is left with, also when the trip is
deleted meanwhile.  (That each entry starts where the last one ended is the part they break,
section 5.)  `RecordInv` says of pending work that it records the status it assigns, and a
PATCH, which assigns none, records no change; and that the status it was decided on is one in
the log, since every status a row has had is, and the log only grows.

When requests do not overlap: `SerialCorrect` (`SerialInv`), and from it
`TimelinesAreUnbroken`, `ColumnsFollowTheStatus`, `TripsEndInOrder` and
`TripsImplementTheDiagram`.  `SerialInv` says that no two requests have the same trip, and
that pending work is `Fresh`: an UPDATE starts from the status the row still has, keeps it or
makes one step of the table, and *leaves a row that fits* once flushed onto the row as it is.
So a commit needs no case for each handler; each handler shows once, when it begins, that
its statement is of that kind.  The calendar only helps (a trip that is over stays over).

### ExpensesProofs

In every interleaving, with both services running: `ReportsAreTyped`;
`ReportActorsCorrect`, and from it `ReportDecidersWereAlwaysAsked`; `SettlementCorrect`, and
from it `ApprovalsAlwaysSettle`.  `ReportActorInv` is the counterpart of `ActorInv`, with the owner of
a report tied to the creator of its trip, who never changes although the trip's row may.
`SettlementInv` ties two logs by the number of their entries: a request that is ready
settles exactly when it approves, and when it settles, the log of the trip *already* has its
COMPLETED entry.  It also needs what the trip service alone does not do: settle, or bring a
trip to COMPLETED with any other entry.

When requests do not overlap: `ReportSerialCorrect` (`ReportSerialInv`), and from it
`TotalsAreSums`, `SubmissionsAreComplete`, `ReportColumnsFollowTheStatus`,
`SubmissionsAreFrozen`, `TripsStayInOrder` and `ServicesImplementTheJoinedDiagram`.
Besides `SerialInv` of the trips it says: a trip with a request on its report has no other
request (`Alone`), no two requests have flushed one item, a trip without a report has no
items, every report agrees with its trip and its items (`ReportFits`), what a request has
loaded is what the tables hold, and what it is about to write leaves a report that fits
*together with its flushed item*.  Requests on other trips run beside it, so the sum over the
items of a report has to be shown untouched by changes to the items of others.

The total is a fold over a set.  What a fold computes is an induction over the set; here it is
avoided: the fold satisfies its defining equation, and that a sum depends only on the
amounts in its set, or grows by the amount that is added, is shown on a smallest
counterexample, which a finite set of subsets has by the theorems of the library.  This needs
`IsFiniteSet(ItemIds)`, part of `ExpensesAssumption`.

`ReportAndTripTogether`: a report is approved exactly when its trip is settled, it exists
only beyond the approval of the trip, and a submitted one only when the trip is completed.
It is proved of the joined diagram and holds of the services since they implement it.

### AccountsProofs

In every interleaving: `AccountTypes`, `ActiveAreComplete`, `TokensWereApproved`, from
`AccountInv`.  An overlap may move the status in ways the diagram forbids, so neither
property can be argued from the diagram.  The argument is about statements instead: whoever
makes a row ACTIVE sends the number in the same statement, or creates the row with both; and
no statement writes NULL into the number.  So `AccountInv` says of pending work that an UPDATE
which sets ACTIVE carries a number or was decided on a row that had one (a number, once
there, stays), and of the rows that an ACTIVE one has a number.  A token is given for an
ACTIVE row, so its holder has a number, and keeps it.

With one request at a time: `SerialAccounts` (`SerialInv`), `AnAdminRemains`,
`SessionsStayActive`, `AccountsImplementTheDiagram`.  A pending UPDATE names an administrator
who remains after it: the one who decided, since nobody demotes themselves.  That whoever
works with a token is ACTIVE does not follow from a check of the code (the check of a token
looks at `is_active`), but from the diagram: nothing leaves ACTIVE.

### ApiKeysProofs

`KeysInvariant` (`KeyInv`), `KeysAreTyped`, `KeyLimit`, `UsesStayRecorded`, `RevocationIsFinal`,
`ScopesAreKept`, all in every interleaving.  For the limit `KeyInv` counts the active keys
of a user and the requests that have passed the count and not yet inserted together: fewer than the
limit and the number of requests.  A request that passes the count joins them when the
active keys are below the limit; an insertion moves one from the second set to the first.
Revocation is final because the UPDATE of a use has one column in its SET clause: the
invariant says so of every authentication that is under way.

### MasterDataProofs

`ReferencesInvariant` (`RefInv`), `MastersKeepTheirReferences` in every interleaving, and
`ChecksCoverTheRest`, whose property has its own condition (`calm`: no two requests have
overlapped so far).  `RefInv` says which columns there are (`RowsFit`, `WorkFits`), and of a
calm state that what the one running request saw is what its commit will find.

### MatchingProofs

`MatchingInvariant` (`MatchInv`), `ItemsStayTheOwners`, `DayListsAreExact`,
`PrefetchLosesNothing`, `CandidatesAreTheRule`, all in every interleaving and for every
delivered table.  `MatchInv` says that an item which was checked is still one of the owner's
when it is written: neither a transaction nor the owner of its card ever changes.  The two
calendars are arithmetic: a window of local days lies in the window of UTC days that is a
day wider on each side, and a bound in UTC at the local midnight selects a local day.  That
there is a sorted sequence at all is shown by giving each candidate the place that is the
number of those up to it, which is one to one.  Hypothesis of `CandidatesAreTheRule`: the
table of transactions is finite.

### NumberingProofs

`NumbersCorrect` (`NumberInv`), `NumbersHaveNoGaps` and `ReportNumbersAreForGood` in every
interleaving.  `NumberInv` says of a pending report number that it is at most one beyond the number of
reports of its year: the numbers from 1 to n are there, so one that is not refused is n + 1.
That the maximum *of texts* of 1 .. n, and one, is n + 1 or taken is where the order of texts comes
in.

`NumbersAreFreeUpToTheWidth` is stated for fewer than `Base * (Limit - 1)` trip ids (99990 in the
code): beyond `Base * Limit` numbers have another digit, which `TextBefore` does not model.
Then a computed number is taken exactly when its year has both the last number of
the width and the one after it (9999 and 10000).

### AuthStoreProofs

`StoreInvariant` (`StoreInv`), `StoreIsTyped`, `HeaderIsOfTheToken`, `TokensLeaveForGood`, for
every order of answers and failures.  `StoreInv` says that a tab which restores has exactly
one request under way, which asks about the token the tab still holds: this is what makes the
late answer of `/auth/me` harmless.  The other late answers only end sessions.

### What they rest on

Named assumptions on the constants, which TLC evaluates in the runs; there are no others.
`TripsAssumption`, `ExpensesAssumption`, `AccountsAssumption`, `ApiKeysAssumption`,
`MasterDataAssumption`, `MatchingAssumption`, `NumberingAssumption`, `AuthStoreAssumption`
give the constants their types and say that the markers (`None`, `Keep`, `Gone`) are not
values of the columns.  `NullIsNoRow`, `NullIsNoReport`, `NullIsNoReportEntry`,
`NeitherIsAnItem`, `NullIsNoKey` and `NullIsNoRequest` say that a marker is not a record,
which TLA+ leaves open for a constant.  `NumberingAssumption` includes `Base^Width > 2`, since
the provers do not compute powers.

### Checked by TLC only

* The liveness of `AuthStore` (every wait ends, an expired session ends): liveness under
  fairness is out of the provers' reach.
* That the arithmetic order of texts is the order of the digits (`TextOrderIsDigitByDigit`): an
  induction over the digits.  TLC compares all pairs the instance can meet.
* `matching_double`, which is a counterexample.

## 7. Assumed and left out

* **PostgreSQL** at READ COMMITTED with its constraints and row locks, and
  **SQLAlchemy**'s unit of work, are taken to behave as documented; `Flushed`,
  `Dirty`, `Rollback` are what is used of them.
* The log is kept in commit order.  The timeline shown to users is sorted by
  `created_at`, the start of the transaction; overlapping requests may be shown in
  another order than they were committed.
* The user table is shared with another project.  `managerOf` is changed here only
  through `update_user`, and starts without anyone being their own manager.
* In `Trips` and `Expenses`, trip fields other than the dates, report fields other than the
  two centers (one cell: both set or not), and item fields other than amount and
  exclusion are data no property distinguishes.  The validations against master data only
  refuse; what they guarantee of the rows is in `MasterData`, the transactions of items
  in `Matching`.
* The text of passwords, tokens and keys, and their hashes: two are equal or not.
* The setting of a password, names, positions, sort orders: columns nothing depends on.
* Reading and marking notifications: a single row of the reader's own, set once.
* In the browser: where the login leads afterwards (its redirect parameter), the `loading`
  flag of an administration screen's list, and the `submitting` flag by which the login page
  locks its form.  The `loading` of the session store is modelled, but no page reads it; of
  the waits in `WaitingEnds` the one a user meets is `busy`.
* Responses, formatting, paging, search, statistics, OpenAPI, the schemas: no state.  What
  a schema keeps out of a request is part of the module it matters to.
* The pages of the front end except the layout, and the badge of the notifications.
  The badge may show the count of an earlier user until its next refresh.
* Seed, configuration and deployment: start-up code without a protocol.

## 8. Plan

1. *Done*: the twelve modules of the system and its abstract specifications, checked by the
   twelve runs; the eight proof modules, with every safety property, action property and
   refinement of the runs.
2. *Next*: theorems that no run states and that connect the components, such as what the
   numbers of `Numbering` and the columns of `Trips` say together of a settled trip; the
   abstract diagrams' own invariants (every walk of `TripLifecycle` through SETTLED passes COMPLETED).
3. *Left to TLC*: the liveness of the browser.
