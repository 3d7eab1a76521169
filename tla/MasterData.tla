----------------------------- MODULE MasterData ------------------------------
(***************************************************************************)
(* Departments, centers and common codes (services/admin/departments.py,   *)
(* centers.py, codes.py), and the documents that refer to them.            *)
(*                                                                         *)
(* Some references are foreign keys.  The others are plain values: a       *)
(* document names a center or a code by its code, and a user a department  *)
(* by its id, and only the services look after them, with a check that is  *)
(* one step and a write that is a later one.                               *)
(***************************************************************************)
EXTENDS Integers, FiniteSets

CONSTANTS
  Rows,     \* the rows the tables may hold, each <<table, key>>
  Workers,  \* concurrently running requests
  MaxRows,  \* bound: a row is created only below this many, pending ones included
  Keep,     \* "this column is not in the UPDATE statement"
  None      \* no row, no request

Masters == {"department", "cost_center", "fund_center", "code_group", "code"}

Documents == {"user", "trip", "report", "item"}

Table(r) == r[1]

RowsOf(tables) == {r \in Rows : Table(r) \in tables}

ASSUME MasterDataAssumption ==
  /\ \A r \in Rows : r = <<r[1], r[2]>> /\ Table(r) \in Masters \cup Documents
  /\ MaxRows \in Nat
  /\ None \notin Rows
  /\ Keep \notin BOOLEAN

VARIABLES
  row,   \* every table: [active, refs: the rows it names], or None
  past,  \* ids that were handed out; they are not handed out again
  work,  \* what each running request is about to write, or None
  calm   \* no two requests have overlapped so far

vars == <<row, past, work, calm>>

RowType == [active : BOOLEAN, refs : SUBSET Rows]

ASSUME NullIsNoRow == None \notin RowType

-----------------------------------------------------------------------------
(* Who refers to whom                                                      *)

\* Mutant: the foreign key of codes is not declared.
ForeignKeys_ofDepartments ==
  {<<"department", "department">>, <<"cost_center", "department">>,
   <<"fund_center", "department">>}

ForeignKeys ==
  {<<"department", "department">>, <<"cost_center", "department">>,
   <<"fund_center", "department">>, <<"code", "code_group">>}

\* Mutant: the items, which override the centers of their report, are forgotten.
_REFERENCES_ofHeaders ==
  {<<"trip", "cost_center">>, <<"report", "cost_center">>, <<"report", "fund_center">>}

\* Where a center is named by its code: the columns delete_center looks into.
_REFERENCES ==
  {<<"trip", "cost_center">>, <<"report", "cost_center">>, <<"item", "cost_center">>,
   <<"report", "fund_center">>, <<"item", "fund_center">>}

Exists(r) == row[r] # None

\* The rows that name r in a column of these.
References(r, columns) ==
  {x \in Rows : /\ Exists(x)
                /\ r \in row[x].refs
                /\ <<Table(x), Table(r)>> \in columns}

\* A department and a group are known by an id, the other masters by their code.
ById == {"department", "code_group"}

-----------------------------------------------------------------------------
(* Helpers                                                                 *)

Idle(w) == work[w] = None

Inserting(w, r) == ~Idle(w) /\ work[w].op = "INSERT" /\ work[w].row = r

\* A handler has read and decided; the statement is flushed and committed later.
\* columns are the tables its SET clause refers to, refs the values.
Begin(w, op, r, active, columns, refs) ==
  /\ work' = [work EXCEPT ![w] =
       [op |-> op, row |-> r, active |-> active, columns |-> columns, refs |-> refs]]
  /\ calm' = (calm /\ \A v \in Workers : Idle(v))
  /\ UNCHANGED <<row, past>>

\* The values for these columns, at most one for each.
Choices ==
  [columns \in SUBSET Masters |->
     {refs \in SUBSET RowsOf(columns) : \A x, y \in refs : Table(x) = Table(y) => x = y}]

\* assert_unique, or a new id.
Creatable(r) ==
  /\ ~Exists(r)
  /\ r \notin past
  /\ Cardinality({x \in Rows : Exists(x) \/ \E w \in Workers : Inserting(w, x)}) < MaxRows

Insert(w, r, active, refs) ==
  Creatable(r) /\ Begin(w, "INSERT", r, active, {}, refs)

Update(w, r, active, columns, refs) ==
  Exists(r) /\ Begin(w, "UPDATE", r, active, columns, refs)

delete_entity(w, r) == Begin(w, "DELETE", r, Keep, {}, {})

\* Columns not in the statement keep what the row holds now.
Flushed(set, r) ==
  [active |-> IF set.active = Keep THEN row[r].active ELSE set.active,
   refs   |-> {x \in row[r].refs : Table(x) \notin set.columns} \cup set.refs]

-----------------------------------------------------------------------------
(* Departments and centers                                                 *)

_assert_parent(r, refs) == \A x \in refs : x # r /\ Exists(x)

create_department(w, r) ==
  \E refs \in Choices[{"department"}] :
    /\ _assert_parent(r, refs)
    /\ Insert(w, r, TRUE, refs)

update_department(w, r) ==
  \E refs \in Choices[{"department"}] :
    /\ _assert_parent(r, refs)
    /\ Update(w, r, Keep, {"department"}, refs)

\* Users name their department without a foreign key; the centers and the
\* departments below have one.
delete_department(w, r) ==
  /\ Exists(r)
  /\ References(r, {<<"user", "department">>}) = {}
  /\ delete_entity(w, r)

\* The department is optional.
create_center(w, r) ==
  \E refs \in Choices[{"department"}], active \in BOOLEAN :
    /\ \A x \in refs : Exists(x)
    /\ Insert(w, r, active, refs)

\* The code is not in the schema of the update.
update_center(w, r) ==
  \/ \E active \in BOOLEAN : Update(w, r, active, {}, {})
  \/ \E refs \in Choices[{"department"}] :
       /\ \A x \in refs : Exists(x)
       /\ Update(w, r, Keep, {"department"}, refs)

delete_center(w, r) ==
  /\ Exists(r)
  /\ References(r, _REFERENCES) = {}
  /\ delete_entity(w, r)

-----------------------------------------------------------------------------
(* Common codes                                                            *)

create_code_group(w, r) == \E active \in BOOLEAN : Insert(w, r, active, {})

update_code_group(w, r) == \E active \in BOOLEAN : Update(w, r, active, {}, {})

\* The codes are read with the group; only an empty group is deleted.
delete_code_group(w, r) ==
  /\ Exists(r)
  /\ References(r, {<<"code", "code_group">>}) = {}
  /\ delete_entity(w, r)

create_code(w, r) ==
  \E g \in RowsOf({"code_group"}), active \in BOOLEAN :
    /\ Exists(g)
    /\ Insert(w, r, active, {g})

update_code(w, r) == \E active \in BOOLEAN : Update(w, r, active, {}, {})

\* Nobody looks for documents that name the code: it must be inactive instead.
delete_code(w, r) ==
  /\ Exists(r)
  /\ ~row[r].active
  /\ delete_entity(w, r)

-----------------------------------------------------------------------------
(* Documents                                                               *)

validate_codes(r) ==
  Exists(r) /\ row[r].active /\ \A g \in row[r].refs : Exists(g) /\ row[g].active

\* assert_cost_center and assert_fund_center: the active ones.
assert_center_code(r) == Exists(r) /\ row[r].active

assert_department(r) == Exists(r)

Usable(r) ==
  CASE Table(r) = "code"       -> validate_codes(r)
    [] Table(r) = "department" -> assert_department(r)
    [] OTHER                   -> assert_center_code(r)

\* What a client may set: the cost center of a trip is not among it.
Sent(table) ==
  CASE table = "user"   -> {"department", "code"}
    [] table = "trip"   -> {"code"}
    [] table = "report" -> {"cost_center", "fund_center"}
    [] OTHER            -> {"code", "cost_center", "fund_center"}

\* signup, create_user, create_trip and add_item.  A user has a department.
create_document(w, r) ==
  \E refs \in Choices[Sent(Table(r))] :
    /\ Table(r) # "report"
    /\ Table(r) = "user" => \E d \in refs : Table(d) = "department"
    /\ \A x \in refs : Usable(x)
    /\ Insert(w, r, TRUE, refs)

\* update_user, update_trip, update_report and update_item.  A request sends one
\* column here: one that sends more has the effect of several, and a department
\* is the only one that may not be NULL.
update_document(w, r) ==
  \E c \in Sent(Table(r)) : \E refs \in Choices[{c}] :
    /\ c = "department" => refs # {}
    /\ \A x \in refs : Usable(x)
    /\ Update(w, r, Keep, {c}, refs)

\* The cost center of the trip is taken over unchecked.
create_report(w, r) ==
  \E t \in RowsOf({"trip"}) :
    /\ Exists(t)
    /\ Insert(w, r, TRUE, {x \in row[t].refs : Table(x) = "cost_center"})

delete_document(w, r) ==
  /\ Exists(r)
  /\ Table(r) \in {"trip", "item"}
  /\ delete_entity(w, r)

-----------------------------------------------------------------------------
(* The end of a request                                                    *)

Finish(w) ==
  /\ work' = [work EXCEPT ![w] = None]
  /\ UNCHANGED calm

\* The referenced row of a foreign key is there.
ForeignKeysHold(r, refs) ==
  \A x \in refs : <<Table(r), Table(x)>> \in ForeignKeys => Exists(x)

CommitInsert(w) ==
  /\ ~Idle(w) /\ work[w].op = "INSERT"
  /\ ~Exists(work[w].row) /\ work[w].row \notin past
  /\ ForeignKeysHold(work[w].row, work[w].refs)
  /\ row' = [row EXCEPT ![work[w].row] = [active |-> work[w].active, refs |-> work[w].refs]]
  /\ UNCHANGED past
  /\ Finish(w)

CommitUpdate(w) ==
  /\ ~Idle(w) /\ work[w].op = "UPDATE"
  /\ Exists(work[w].row)
  /\ ForeignKeysHold(work[w].row, work[w].refs)
  /\ row' = [row EXCEPT ![work[w].row] = Flushed(work[w], work[w].row)]
  /\ UNCHANGED past
  /\ Finish(w)

\* PostgreSQL refuses to delete a row that a foreign key points to.
CommitDelete(w) ==
  /\ ~Idle(w) /\ work[w].op = "DELETE"
  /\ Exists(work[w].row)
  /\ References(work[w].row, ForeignKeys) \subseteq {work[w].row}
  /\ row' = [row EXCEPT ![work[w].row] = None]
  /\ past' = past \cup {r \in {work[w].row} : Table(r) \in ById}
  /\ Finish(w)

\* A constraint refused the statement, the row is gone, or the request failed.
Rollback(w) ==
  /\ ~Idle(w)
  /\ UNCHANGED <<row, past>>
  /\ Finish(w)

Administration(w) ==
  /\ Idle(w)
  /\ \/ \E r \in RowsOf({"department"}) :
          create_department(w, r) \/ update_department(w, r) \/ delete_department(w, r)
     \/ \E r \in RowsOf({"cost_center", "fund_center"}) :
          create_center(w, r) \/ update_center(w, r) \/ delete_center(w, r)
     \/ \E r \in RowsOf({"code_group"}) :
          create_code_group(w, r) \/ update_code_group(w, r) \/ delete_code_group(w, r)
     \/ \E r \in RowsOf({"code"}) :
          create_code(w, r) \/ update_code(w, r) \/ delete_code(w, r)

Business(w) ==
  /\ Idle(w)
  /\ \/ \E r \in RowsOf(Documents) :
          create_document(w, r) \/ update_document(w, r) \/ delete_document(w, r)
     \/ \E r \in RowsOf({"report"}) : create_report(w, r)

\* The trips of the delivered database have a cost center, which no request sets.
Init ==
  /\ \/ row = [r \in Rows |-> None]
     \/ \E t \in RowsOf({"trip"}), c \in RowsOf({"cost_center"}) :
          row = [r \in Rows |->
            IF r \notin {t, c} THEN None
            ELSE [active |-> TRUE, refs |-> {c} \ {r}]]
  /\ past = {}
  /\ work = [w \in Workers |-> None]
  /\ calm = TRUE

Next ==
  \E w \in Workers :
    \/ Administration(w)
    \/ Business(w)
    \/ CommitInsert(w)
    \/ CommitUpdate(w)
    \/ CommitDelete(w)
    \/ Rollback(w)

Spec == Init /\ [][Next]_vars
-----------------------------------------------------------------------------
(* Properties of every interleaving                                        *)

TypeOK ==
  /\ row \in [Rows -> RowType \cup {None}]
  /\ past \subseteq RowsOf(ById)
  /\ calm \in BOOLEAN
  /\ \A w \in Workers :
       Idle(w) \/ /\ work[w].op \in {"INSERT", "UPDATE", "DELETE"}
                  /\ work[w].row \in Rows
                  /\ work[w].active \in BOOLEAN \cup {Keep}
                  /\ work[w].refs \subseteq Rows

GuardedReferencesHold ==
  \A r \in Rows : Exists(r) =>
    \A x \in row[r].refs :
      Table(r) \in Masters => Exists(x)

\* A code keeps its group and a center or a department the department above it,
\* although the group was seen empty, and the department without users, before
\* the other request added to it.
ReferencesInv == TypeOK /\ GuardedReferencesHold

-----------------------------------------------------------------------------
(* Properties when requests do not overlap                                 *)

\* What no foreign key guards, the services do: no trip, report or item names a
\* center that was deleted, and no user such a department.  (A code may go as
\* soon as it is inactive, whoever names it: the other columns.)
NothingDangles ==
  calm => \A r \in Rows : Exists(r) => \A x \in row[r].refs : Table(x) # "code" => Exists(x)
=============================================================================
