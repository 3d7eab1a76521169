-------------------------- MODULE MasterDataProofs ---------------------------
(***************************************************************************)
(* Theorems about MasterData, for every set of rows and of requests.       *)
(***************************************************************************)
EXTENDS MasterData, TLAPS

USE MasterDataAssumption

-----------------------------------------------------------------------------
(* The inductive invariant                                                 *)

\* The columns of the schema that name a row of another table.
AllColumns ==
  ForeignKeys \cup _REFERENCES \cup
  {<<"user", "department">>, <<"user", "code">>, <<"trip", "code">>, <<"item", "code">>}

Fits(r, refs) == \A x \in refs : <<Table(r), Table(x)>> \in AllColumns

RowsFit == \A r \in Rows : Exists(r) => Fits(r, row[r].refs)

\* What a running request is about to write.
Statement(s) ==
  /\ s.op \in {"INSERT", "UPDATE", "DELETE"}
  /\ s.row \in Rows
  /\ s.active \in BOOLEAN \cup {Keep}
  /\ s.op = "INSERT" => s.active \in BOOLEAN
  /\ s.refs \subseteq Rows
  /\ Fits(s.row, s.refs)

WorkFits == \A w \in Workers : ~Idle(w) => Statement(work[w])

\* While no other request ran, what the handler saw is what the commit finds.
StillTrue(s) ==
  /\ s.op # "DELETE" => \A x \in s.refs : Table(x) # "code" => Exists(x)
  /\ s.op = "DELETE" /\ Table(s.row) # "code" =>
       \A x \in Rows : Exists(x) /\ s.row \in row[x].refs =>
         <<Table(x), Table(s.row)>> \in ForeignKeys

CalmRequests ==
  calm => \A w \in Workers : ~Idle(w) =>
            /\ \A v \in Workers : ~Idle(v) => v = w
            /\ StillTrue(work[w])

RefInv ==
  /\ TypeOK /\ DOMAIN work = Workers
  /\ RowsFit /\ WorkFits
  /\ GuardedReferencesHold
  /\ CalmRequests /\ NothingDangles

-----------------------------------------------------------------------------
(* Tables and columns                                                      *)

\* What a master names, it names by a foreign key; codes are named by values.
LEMMA MasterColumns ==
  ASSUME NEW r \in Rows, NEW x \in Rows, <<Table(r), Table(x)>> \in AllColumns
  PROVE  /\ Table(r) \in Masters => <<Table(r), Table(x)>> \in ForeignKeys
         /\ Table(x) \in Masters
  BY DEF AllColumns, ForeignKeys, _REFERENCES, Masters, Table

\* The values of a statement are rows of the tables its columns refer to.
LEMMA ChoiceRows ==
  ASSUME NEW columns \in SUBSET Masters, NEW refs \in Choices[columns]
  PROVE  refs \subseteq Rows /\ \A x \in refs : Table(x) \in columns
  BY DEF Choices, RowsOf

-----------------------------------------------------------------------------
(* Handing over                                                            *)

\* A handler that decided well keeps the invariant: it writes nothing yet.
LEMMA BeginKeeps ==
  ASSUME RefInv, NEW w \in Workers, Idle(w),
         NEW op, NEW r, NEW active, NEW columns, NEW refs,
         Statement([op |-> op, row |-> r, active |-> active, columns |-> columns, refs |-> refs]),
         calm => StillTrue([op |-> op, row |-> r, active |-> active, columns |-> columns,
                            refs |-> refs]),
         Begin(w, op, r, active, columns, refs)
  PROVE  RefInv'
<1>1. PICK s : s = [op |-> op, row |-> r, active |-> active, columns |-> columns, refs |-> refs]
  OBVIOUS
<1>2. /\ work' = [work EXCEPT ![w] = s] /\ UNCHANGED <<row, past>>
      /\ calm' = (calm /\ \A v \in Workers : Idle(v))
  BY <1>1 DEF Begin
<1>3. /\ DOMAIN work' = Workers /\ work'[w] = s
      /\ \A v \in Workers : v # w => work'[v] = work[v]
  BY <1>2 DEF RefInv
<1>4. Statement(s) /\ Statement(s)'
  BY <1>1 DEF Statement, Fits
<1>5. WorkFits'
  BY <1>3, <1>4 DEF RefInv, WorkFits, Idle, Statement, Fits
<1>6. calm' \in BOOLEAN
  BY <1>2 DEF RefInv, TypeOK
<1>7. TypeOK'
  BY <1>2, <1>5, <1>6 DEF RefInv, TypeOK, WorkFits, Statement
<1>8. CalmRequests'
  <2> SUFFICES ASSUME calm', NEW v \in Workers, ~Idle(v)'
               PROVE  (\A u \in Workers : ~Idle(u)' => u = v) /\ StillTrue(work[v])'
    BY DEF CalmRequests
  <2>1. calm /\ \A u \in Workers : Idle(u)
    BY <1>2
  <2>2. \A u \in Workers : u # w => Idle(u)'
    BY <1>3, <2>1 DEF Idle
  <2>3. v = w /\ work'[v] = s
    BY <1>3, <2>2
  <2>4. StillTrue(s)
    BY <1>1, <2>1
  <2>5. StillTrue(s)'
    BY <1>2, <2>4 DEF StillTrue, Exists
  <2> QED
    BY <2>2, <2>3, <2>5
<1>9. RowsFit' /\ GuardedReferencesHold' /\ NothingDangles'
  BY <1>2 DEF RefInv, RowsFit, Fits, GuardedReferencesHold, NothingDangles, Exists
<1> QED
  BY <1>3, <1>5, <1>7, <1>8, <1>9 DEF RefInv

\* A creation whose references fit and were looked up.
LEMMA InsertKeeps ==
  ASSUME RefInv, NEW w \in Workers, Idle(w), NEW r \in Rows, NEW active \in BOOLEAN,
         NEW refs \in SUBSET Rows, Fits(r, refs),
         \A x \in refs : calm /\ Table(x) # "code" => Exists(x),
         Insert(w, r, active, refs)
  PROVE  RefInv'
<1> DEFINE s == [op |-> "INSERT", row |-> r, active |-> active, columns |-> {}, refs |-> refs]
<1>1. s.op = "INSERT" /\ s.row = r /\ s.active = active /\ s.refs = refs
  OBVIOUS
<1>2. Statement(s) /\ (calm => StillTrue(s))
  BY <1>1 DEF Statement, StillTrue
<1> QED
  BY <1>2, BeginKeeps DEF Insert

\* A change whose references fit and were looked up.
LEMMA UpdateKeeps ==
  ASSUME RefInv, NEW w \in Workers, Idle(w), NEW r \in Rows, NEW active \in BOOLEAN \cup {Keep},
         NEW columns, NEW refs \in SUBSET Rows, Fits(r, refs),
         \A x \in refs : calm /\ Table(x) # "code" => Exists(x),
         Update(w, r, active, columns, refs)
  PROVE  RefInv'
<1> DEFINE s == [op |-> "UPDATE", row |-> r, active |-> active, columns |-> columns, refs |-> refs]
<1>1. s.op = "UPDATE" /\ s.row = r /\ s.active = active /\ s.refs = refs
  OBVIOUS
<1>2. Statement(s) /\ (calm => StillTrue(s))
  BY <1>1 DEF Statement, StillTrue
<1> QED
  BY <1>2, BeginKeeps DEF Update

\* A deletion after the service has looked for what no foreign key guards.
LEMMA DeleteKeeps ==
  ASSUME RefInv, NEW w \in Workers, Idle(w), NEW r \in Rows,
         Table(r) # "code" =>
           \A x \in Rows : Exists(x) /\ r \in row[x].refs => <<Table(x), Table(r)>> \in ForeignKeys,
         delete_entity(w, r)
  PROVE  RefInv'
<1> DEFINE s == [op |-> "DELETE", row |-> r, active |-> Keep, columns |-> {}, refs |-> {}]
<1>1. s.op = "DELETE" /\ s.row = r /\ s.active = Keep /\ s.refs = {}
  OBVIOUS
<1>2. Statement(s) /\ (calm => StillTrue(s))
  BY <1>1 DEF Statement, StillTrue, Fits
<1> QED
  BY <1>2, BeginKeeps DEF delete_entity

\* The columns that name a row, seen from the row.
LEMMA ReferringColumns ==
  ASSUME RefInv, NEW r \in Rows, NEW x \in Rows, Exists(x), r \in row[x].refs
  PROVE  /\ <<Table(x), Table(r)>> \in AllColumns
         /\ Table(r) \in {"cost_center", "fund_center"} => <<Table(x), Table(r)>> \in _REFERENCES
         /\ Table(r) = "department" =>
              Table(x) = "user" \/ <<Table(x), Table(r)>> \in ForeignKeys
         /\ Table(r) = "code_group" => Table(x) = "code"
         /\ Table(r) \notin Documents
<1>1. <<Table(x), Table(r)>> \in AllColumns
  BY DEF RefInv, RowsFit, Fits
<1> QED
  BY <1>1 DEF AllColumns, ForeignKeys, _REFERENCES, Documents

-----------------------------------------------------------------------------
(* Requests                                                                *)

\* Departments and centers.
LEMMA UnitsKeep ==
  ASSUME RefInv, NEW w \in Workers, Idle(w), NEW r \in Rows,
         \/ /\ Table(r) = "department"
            /\ create_department(w, r) \/ update_department(w, r) \/ delete_department(w, r)
         \/ /\ Table(r) \in {"cost_center", "fund_center"}
            /\ create_center(w, r) \/ update_center(w, r) \/ delete_center(w, r)
  PROVE  RefInv'
<1> DEFINE units == {"department", "cost_center", "fund_center"}
<1>1. Table(r) \in units
  OBVIOUS
<1>2. ASSUME NEW refs \in Choices[{"department"}]
      PROVE  refs \in SUBSET Rows /\ Fits(r, refs)
  <2>1. {"department"} \in SUBSET Masters
    BY DEF Masters
  <2>2. refs \in SUBSET Rows /\ \A x \in refs : Table(x) = "department"
    BY <2>1, ChoiceRows
  <2> QED
    BY <1>1, <2>2 DEF Fits, AllColumns, ForeignKeys
<1>3. Fits(r, {})
  BY DEF Fits
<1>4. CASE Table(r) = "department" /\ create_department(w, r)
  BY <1>2, <1>4, InsertKeeps DEF create_department, _assert_parent
<1>5. CASE Table(r) = "department" /\ update_department(w, r)
  BY <1>2, <1>5, UpdateKeeps DEF update_department, _assert_parent
<1>6. CASE Table(r) = "department" /\ delete_department(w, r)
  <2>1. References(r, {<<"user", "department">>}) = {} /\ delete_entity(w, r)
    BY <1>6 DEF delete_department
  <2>2. ASSUME NEW x \in Rows, Exists(x), r \in row[x].refs
        PROVE  <<Table(x), Table(r)>> \in ForeignKeys
    BY <1>6, <2>1, <2>2, ReferringColumns DEF References
  <2> QED
    BY <2>1, <2>2, DeleteKeeps
<1>7. CASE Table(r) \in {"cost_center", "fund_center"} /\ create_center(w, r)
  BY <1>2, <1>7, InsertKeeps DEF create_center
<1>8. CASE Table(r) \in {"cost_center", "fund_center"} /\ update_center(w, r)
  BY <1>2, <1>3, <1>8, UpdateKeeps DEF update_center
<1>9. CASE Table(r) \in {"cost_center", "fund_center"} /\ delete_center(w, r)
  <2>1. References(r, _REFERENCES) = {} /\ delete_entity(w, r)
    BY <1>9 DEF delete_center
  <2>2. ASSUME NEW x \in Rows, Exists(x), r \in row[x].refs
        PROVE  FALSE
    BY <1>9, <2>1, <2>2, ReferringColumns DEF References
  <2> QED
    BY <2>1, <2>2, DeleteKeeps
<1> QED
  BY <1>4, <1>5, <1>6, <1>7, <1>8, <1>9

\* Common codes and their groups.
LEMMA CodesKeep ==
  ASSUME RefInv, NEW w \in Workers, Idle(w), NEW r \in Rows,
         \/ /\ Table(r) = "code_group"
            /\ create_code_group(w, r) \/ update_code_group(w, r) \/ delete_code_group(w, r)
         \/ /\ Table(r) = "code"
            /\ create_code(w, r) \/ update_code(w, r) \/ delete_code(w, r)
  PROVE  RefInv'
<1>1. Fits(r, {})
  BY DEF Fits
<1>2. CASE create_code_group(w, r)
  BY <1>1, <1>2, InsertKeeps DEF create_code_group
<1>3. CASE update_code_group(w, r)
  BY <1>1, <1>3, UpdateKeeps DEF update_code_group
<1>4. CASE Table(r) = "code_group" /\ delete_code_group(w, r)
  <2>1. References(r, {<<"code", "code_group">>}) = {} /\ delete_entity(w, r)
    BY <1>4 DEF delete_code_group
  <2>2. ASSUME NEW x \in Rows, Exists(x), r \in row[x].refs
        PROVE  FALSE
    BY <1>4, <2>1, <2>2, ReferringColumns DEF References
  <2> QED
    BY <2>1, <2>2, DeleteKeeps
<1>5. CASE Table(r) = "code" /\ create_code(w, r)
  <2>1. PICK g \in RowsOf({"code_group"}), active \in BOOLEAN :
          Exists(g) /\ Insert(w, r, active, {g})
    BY <1>5 DEF create_code
  <2>2. {g} \in SUBSET Rows /\ Fits(r, {g})
    BY <1>5, <2>1 DEF RowsOf, Fits, AllColumns, ForeignKeys
  <2> QED
    BY <2>1, <2>2, InsertKeeps
<1>6. CASE update_code(w, r)
  BY <1>1, <1>6, UpdateKeeps DEF update_code
<1>7. CASE Table(r) = "code" /\ delete_code(w, r)
  BY <1>7, DeleteKeeps DEF delete_code
<1> QED
  BY <1>2, <1>3, <1>4, <1>5, <1>6, <1>7

\* Documents name what their service has looked up.
LEMMA DocumentsKeep ==
  ASSUME RefInv, NEW w \in Workers, Business(w)
  PROVE  RefInv'
<1>1. ASSUME NEW r \in Rows, Table(r) \in Documents, NEW columns \in SUBSET Sent(Table(r)),
             NEW refs \in Choices[columns]
      PROVE  refs \in SUBSET Rows /\ Fits(r, refs)
  <2>1. Sent(Table(r)) \subseteq Masters
    BY DEF Sent, Masters
  <2>2. refs \in SUBSET Rows /\ \A x \in refs : Table(x) \in Sent(Table(r))
    BY <2>1, <1>1, ChoiceRows
  <2>3. \A c \in Sent(Table(r)) : <<Table(r), c>> \in AllColumns
    BY <1>1 DEF Sent, Documents, AllColumns, _REFERENCES
  <2> QED
    BY <2>2, <2>3 DEF Fits
<1>2. ASSUME NEW x \in Rows, Usable(x) PROVE Exists(x)
  BY <1>2 DEF Usable, validate_codes, assert_department, assert_center_code
<1>3. ASSUME NEW r \in Rows, Table(r) \in Documents, create_document(w, r) PROVE RefInv'
  <2>1. PICK refs \in Choices[Sent(Table(r))] :
          (\A x \in refs : Usable(x)) /\ Insert(w, r, TRUE, refs)
    BY <1>3 DEF create_document
  <2>2. refs \in SUBSET Rows /\ Fits(r, refs)
    BY <1>1, <1>3
  <2>3. \A x \in refs : Exists(x)
    BY <1>2, <2>1, <2>2
  <2> QED
    BY <2>1, <2>2, <2>3, InsertKeeps DEF Business
<1>4. ASSUME NEW r \in Rows, Table(r) \in Documents, update_document(w, r) PROVE RefInv'
  <2>1. PICK c \in Sent(Table(r)), refs \in UNION {Choices[d] : d \in SUBSET Sent(Table(r))} :
          refs \in Choices[{c}] /\ (\A x \in refs : Usable(x)) /\ Update(w, r, Keep, {c}, refs)
    BY <1>4 DEF update_document
  <2>2. {c} \in SUBSET Sent(Table(r)) /\ Idle(w)
    BY DEF Business
  <2>3. refs \in SUBSET Rows /\ Fits(r, refs)
    BY <1>1, <1>4, <2>1, <2>2
  <2>4. \A x \in refs : Exists(x)
    BY <1>2, <2>1, <2>3
  <2> QED
    BY <2>1, <2>2, <2>3, <2>4, UpdateKeeps
<1>5. ASSUME NEW r \in Rows, delete_document(w, r) PROVE RefInv'
  <2>1. delete_entity(w, r) /\ Table(r) \in Documents
    BY <1>5 DEF delete_document, Documents
  <2> QED
    BY <2>1, ReferringColumns, DeleteKeeps DEF Business
<1>6. ASSUME NEW r \in Rows, Table(r) = "report", create_report(w, r) PROVE RefInv'
  <2>1. PICK t \in RowsOf({"trip"}) :
          Exists(t) /\ Insert(w, r, TRUE, {x \in row[t].refs : Table(x) = "cost_center"})
    BY <1>6 DEF create_report
  <2>2. row[t].refs \subseteq Rows
    BY <2>1 DEF RowsOf, Exists, RefInv, TypeOK, RowType
  <2>3. PICK refs \in SUBSET Rows : refs = {x \in row[t].refs : Table(x) = "cost_center"}
    BY <2>2
  <2>4. Fits(r, refs)
    BY <1>6, <2>3 DEF Fits, AllColumns, _REFERENCES
  <2>5. calm => \A x \in refs : Exists(x)
    BY <2>1, <2>3 DEF RefInv, NothingDangles, RowsOf
  <2> QED
    BY <2>1, <2>3, <2>4, <2>5, InsertKeeps DEF Business
<1> QED
  BY <1>3, <1>4, <1>5, <1>6 DEF Business, RowsOf

-----------------------------------------------------------------------------
(* Commits                                                                 *)

\* A commit that keeps what masters name, and that finds what its handler saw,
\* keeps the invariant.
LEMMA CommitKeeps ==
  ASSUME RefInv, NEW w \in Workers, ~Idle(w), Finish(w),
         row' \in [Rows -> RowType \cup {None}], past' \subseteq RowsOf(ById),
         RowsFit', GuardedReferencesHold',
         calm /\ StillTrue(work[w]) => NothingDangles'
  PROVE  RefInv'
<1>1. /\ DOMAIN work' = Workers /\ work'[w] = None /\ calm' = calm
      /\ \A v \in Workers : v # w => work'[v] = work[v]
  BY DEF Finish, RefInv
<1>2. WorkFits'
  BY <1>1 DEF RefInv, WorkFits, Idle, Statement, Fits
<1>3. TypeOK'
  BY <1>1, <1>2 DEF RefInv, TypeOK, WorkFits, Statement
<1>4. CalmRequests'
  BY <1>1 DEF RefInv, CalmRequests, Idle
<1>5. NothingDangles'
  <2>1. CASE calm
    BY <2>1 DEF RefInv, CalmRequests
  <2>2. CASE ~calm
    BY <1>1, <2>2 DEF NothingDangles
  <2> QED
    BY <2>1, <2>2
<1> QED
  BY <1>1, <1>2, <1>3, <1>4, <1>5 DEF RefInv

\* A row whose references of the schema exist is stored.
LEMMA StoreKeeps ==
  ASSUME RefInv, NEW w \in Workers, ~Idle(w), Finish(w), UNCHANGED past,
         work[w].op # "DELETE", NEW new \in RowType,
         row' = [row EXCEPT ![work[w].row] = new],
         \A x \in new.refs : \/ x \in work[w].refs
                             \/ Exists(work[w].row) /\ x \in row[work[w].row].refs,
         ForeignKeysHold(work[w].row, work[w].refs)
  PROVE  RefInv'
<1>1. Statement(work[w])
  BY DEF RefInv, WorkFits
<1>2. PICK r \in Rows : r = work[w].row
  BY <1>1 DEF Statement
<1>3. row \in [Rows -> RowType \cup {None}]
  BY DEF RefInv, TypeOK
<1>4. /\ row'[r] = new /\ \A x \in Rows : x # r => row'[x] = row[x]
      /\ row' \in [Rows -> RowType \cup {None}]
  BY <1>2, <1>3
<1>5. \A x \in Rows : Exists(x) => Exists(x)'
  BY <1>4, NullIsNoRow DEF Exists
<1>6. new.refs \subseteq Rows
  BY DEF RowType
<1>7. Fits(r, new.refs)
  BY <1>1, <1>2 DEF Statement, Fits, RefInv, RowsFit
<1>8. RowsFit'
  BY <1>4, <1>7 DEF RefInv, RowsFit, Fits, Exists
<1>9. GuardedReferencesHold'
  <2> SUFFICES ASSUME NEW y \in Rows, Exists(y)', NEW x \in row'[y].refs, Table(y) \in Masters
               PROVE  Exists(x)'
    BY DEF GuardedReferencesHold
  <2>1. CASE y # r
    BY <1>4, <1>5, <2>1 DEF RefInv, GuardedReferencesHold, Exists, TypeOK, RowType
  <2>2. CASE y = r
    <3>1. x \in new.refs /\ x \in Rows
      BY <1>4, <1>6, <2>2
    <3>2. CASE Exists(r) /\ x \in row[r].refs
      BY <1>5, <2>2, <3>1, <3>2 DEF RefInv, GuardedReferencesHold
    <3>3. CASE x \in work[w].refs
      <4>1. <<Table(r), Table(x)>> \in ForeignKeys
        BY <1>7, <2>2, <3>1, MasterColumns DEF Fits
      <4> QED
        BY <1>2, <1>5, <3>1, <3>3, <4>1 DEF ForeignKeysHold
    <3> QED
      BY <1>2, <3>1, <3>2, <3>3
  <2> QED
    BY <2>1, <2>2
<1>10. ASSUME calm, StillTrue(work[w]) PROVE NothingDangles'
  <2> SUFFICES ASSUME NEW y \in Rows, Exists(y)', NEW x \in row'[y].refs, Table(x) # "code"
               PROVE  Exists(x)'
    BY DEF NothingDangles
  <2>1. x \in Rows
    BY <1>4 DEF Exists, RowType
  <2>2. CASE y # r
    BY <1>4, <1>5, <1>10, <2>1, <2>2 DEF RefInv, NothingDangles, Exists
  <2>3. CASE y = r
    <3>1. CASE Exists(r) /\ x \in row[r].refs
      BY <1>5, <1>10, <2>1, <3>1 DEF RefInv, NothingDangles
    <3>2. CASE x \in work[w].refs
      BY <1>5, <1>10, <2>1, <3>2 DEF StillTrue
    <3> QED
      BY <1>2, <1>4, <2>3, <3>1, <3>2
  <2> QED
    BY <2>2, <2>3
<1>11. past' \subseteq RowsOf(ById)
  BY DEF RefInv, TypeOK
<1> QED
  BY <1>4, <1>8, <1>9, <1>10, <1>11, CommitKeeps

\* PostgreSQL guards the foreign keys of a new row.
LEMMA CommitInsertKeeps ==
  ASSUME RefInv, NEW w \in Workers, CommitInsert(w)
  PROVE  RefInv'
<1>1. Statement(work[w]) /\ work[w].op = "INSERT"
  BY DEF CommitInsert, RefInv, WorkFits
<1>2. PICK new : new = [active |-> work[w].active, refs |-> work[w].refs]
  OBVIOUS
<1>3. new \in RowType /\ new.refs = work[w].refs
  BY <1>1, <1>2 DEF Statement, RowType
<1> QED
  BY <1>1, <1>2, <1>3, StoreKeeps DEF CommitInsert

\* And those of a changed one.
LEMMA CommitUpdateKeeps ==
  ASSUME RefInv, NEW w \in Workers, CommitUpdate(w)
  PROVE  RefInv'
<1>1. Statement(work[w]) /\ work[w].op = "UPDATE" /\ Exists(work[w].row)
  BY DEF CommitUpdate, RefInv, WorkFits
<1>2. row[work[w].row] \in RowType
  BY <1>1 DEF Statement, Exists, RefInv, TypeOK
<1>3. PICK new : new = Flushed(work[w], work[w].row)
  OBVIOUS
<1>4. new \in RowType
  BY <1>1, <1>2, <1>3 DEF Flushed, Statement, RowType
<1>5. \A x \in new.refs : x \in work[w].refs \/ x \in row[work[w].row].refs
  BY <1>3 DEF Flushed
<1> QED
  BY <1>1, <1>3, <1>4, <1>5, StoreKeeps DEF CommitUpdate

\* And refuses to delete what they point to.
LEMMA CommitDeleteKeeps ==
  ASSUME RefInv, NEW w \in Workers, CommitDelete(w)
  PROVE  RefInv'
<1>1. Statement(work[w]) /\ work[w].op = "DELETE"
  BY DEF CommitDelete, RefInv, WorkFits
<1>2. PICK r \in Rows : r = work[w].row
  BY <1>1 DEF Statement
<1>3. /\ row' = [row EXCEPT ![r] = None] /\ References(r, ForeignKeys) \subseteq {r}
      /\ past' = past \cup {x \in {r} : Table(x) \in ById}
  BY <1>2 DEF CommitDelete
<1>4. /\ row'[r] = None /\ \A x \in Rows : x # r => row'[x] = row[x]
      /\ row' \in [Rows -> RowType \cup {None}]
  BY <1>3 DEF RefInv, TypeOK
<1>5. past' \subseteq RowsOf(ById)
  BY <1>3 DEF RefInv, TypeOK, RowsOf
<1>6. \A y \in Rows : Exists(y)' => y # r /\ Exists(y) /\ row'[y] = row[y]
  BY <1>4 DEF Exists
<1>7. \A y \in Rows : Exists(y) => row[y].refs \subseteq Rows
  BY DEF RefInv, TypeOK, Exists, RowType
<1>8. RowsFit'
  BY <1>6 DEF RefInv, RowsFit, Fits
<1>9. \A y \in Rows : Exists(y)' /\ r \in row[y].refs => <<Table(y), Table(r)>> \notin ForeignKeys
  BY <1>3, <1>6 DEF References
<1>10. GuardedReferencesHold'
  <2> SUFFICES ASSUME NEW y \in Rows, Exists(y)', NEW x \in row'[y].refs, Table(y) \in Masters
               PROVE  Exists(x)'
    BY DEF GuardedReferencesHold
  <2>1. x \in Rows /\ Exists(x) /\ x \in row[y].refs
    BY <1>6, <1>7 DEF RefInv, GuardedReferencesHold
  <2>2. <<Table(y), Table(x)>> \in ForeignKeys
    BY <1>6, <2>1, MasterColumns DEF RefInv, RowsFit, Fits
  <2>3. x # r
    BY <1>9, <2>1, <2>2
  <2> QED
    BY <1>4, <2>1, <2>3 DEF Exists
<1>11. ASSUME calm, StillTrue(work[w]) PROVE NothingDangles'
  <2> SUFFICES ASSUME NEW y \in Rows, Exists(y)', NEW x \in row'[y].refs, Table(x) # "code"
               PROVE  Exists(x)'
    BY DEF NothingDangles
  <2>1. x \in Rows /\ Exists(x) /\ x \in row[y].refs
    BY <1>6, <1>7, <1>11 DEF RefInv, NothingDangles
  <2>2. x # r
    BY <1>1, <1>2, <1>6, <1>9, <1>11, <2>1 DEF StillTrue
  <2> QED
    BY <1>4, <2>1, <2>2 DEF Exists
<1> QED
  BY <1>4, <1>5, <1>8, <1>10, <1>11, CommitKeeps DEF CommitDelete

\* A request that fails leaves everything as it was.
LEMMA RollbackKeeps ==
  ASSUME RefInv, NEW w \in Workers, Rollback(w)
  PROVE  RefInv'
<1>1. UNCHANGED <<row, past>> /\ ~Idle(w) /\ Finish(w) /\ calm' = calm
  BY DEF Rollback, Finish
<1>2. row' \in [Rows -> RowType \cup {None}] /\ past' \subseteq RowsOf(ById)
  BY <1>1 DEF RefInv, TypeOK
<1>3. RowsFit' /\ GuardedReferencesHold' /\ NothingDangles'
  BY <1>1 DEF RefInv, RowsFit, Fits, GuardedReferencesHold, NothingDangles, Exists
<1> QED
  BY <1>1, <1>2, <1>3, CommitKeeps

-----------------------------------------------------------------------------
(* Theorems                                                                *)

\* The tables are empty, or hold one delivered trip and its cost center.
LEMMA InitReferences == Init => RefInv
<1> SUFFICES ASSUME Init PROVE RefInv
  OBVIOUS
<1>1. \A w \in Workers : Idle(w)
  BY DEF Init, Idle
<1> DEFINE Delivered ==
             /\ row \in [Rows -> RowType \cup {None}]
             /\ \A r \in Rows : Exists(r) => \A x \in row[r].refs :
                  /\ x \in Rows /\ Exists(x)
                  /\ Table(r) = "trip" /\ Table(x) = "cost_center"
<1>2. Delivered
  <2>1. CASE row = [r \in Rows |-> None]
    BY <2>1 DEF Exists
  <2>2. ASSUME NEW t \in RowsOf({"trip"}), NEW c \in RowsOf({"cost_center"}),
               row = [r \in Rows |-> IF r \notin {t, c} THEN None
                                     ELSE [active |-> TRUE, refs |-> {c} \ {r}]]
        PROVE  Delivered
    <3>1. t \in Rows /\ c \in Rows /\ Table(t) = "trip" /\ Table(c) = "cost_center"
      BY DEF RowsOf
    <3>2. \A r \in Rows : [active |-> TRUE, refs |-> {c} \ {r}] \in RowType
      BY <3>1 DEF RowType
    <3>3. row \in [Rows -> RowType \cup {None}]
      BY <2>2, <3>2
    <3>4. row[c] = [active |-> TRUE, refs |-> {c} \ {c}] /\ Exists(c)
      BY <2>2, <3>1, <3>2, NullIsNoRow DEF Exists
    <3>5. row[t].refs = {c} \ {t} /\ row[c].refs = {}
      BY <2>2, <3>1, <3>4
    <3> QED
      BY <2>2, <3>1, <3>3, <3>4, <3>5 DEF Exists
  <2> QED
    BY <2>1, <2>2 DEF Init
<1>3. TypeOK /\ DOMAIN work = Workers
  BY <1>1, <1>2 DEF Init, TypeOK
<1>4. RowsFit /\ GuardedReferencesHold /\ NothingDangles
  BY <1>2 DEF RowsFit, Fits, AllColumns, _REFERENCES, GuardedReferencesHold, NothingDangles
<1> QED
  BY <1>1, <1>3, <1>4 DEF RefInv, WorkFits, CalmRequests

\* Every step keeps the invariant.
LEMMA StepKeeps ==
  ASSUME RefInv, [Next]_vars
  PROVE  RefInv'
<1>1. CASE UNCHANGED vars
  BY <1>1 DEF vars, RefInv, TypeOK, RowsFit, WorkFits, Statement, Fits, GuardedReferencesHold,
              CalmRequests, StillTrue, NothingDangles, Exists, Idle
<1>2. ASSUME NEW w \in Workers, Administration(w) PROVE RefInv'
  BY <1>2, UnitsKeep, CodesKeep DEF Administration, RowsOf
<1>3. ASSUME NEW w \in Workers, Business(w) PROVE RefInv'
  BY <1>3, DocumentsKeep
<1>4. ASSUME NEW w \in Workers,
             CommitInsert(w) \/ CommitUpdate(w) \/ CommitDelete(w) \/ Rollback(w)
      PROVE  RefInv'
  BY <1>4, CommitInsertKeeps, CommitUpdateKeeps, CommitDeleteKeeps, RollbackKeeps
<1> QED
  BY <1>1, <1>2, <1>3, <1>4 DEF Next

\* Every state of the tables satisfies the invariant.
THEOREM ReferencesInvariant == Spec => []RefInv
<1>1. RefInv /\ [Next]_vars => RefInv'
  BY StepKeeps
<1> QED
  BY InitReferences, <1>1, PTL DEF Spec

\* No master ever names a row that is gone, whatever requests overlap: the
\* services check too early, and the foreign keys make up for it.
THEOREM MastersKeepTheirReferences == Spec => []ReferencesInv
<1>1. RefInv => ReferencesInv
  BY DEF RefInv, ReferencesInv
<1> QED
  BY ReferencesInvariant, <1>1, PTL

\* As long as no two requests have overlapped, documents name rows that exist:
\* the checks of the services cover every column no foreign key guards, but that
\* of the codes.
THEOREM ChecksCoverTheRest == Spec => []NothingDangles
<1>1. RefInv => NothingDangles
  BY DEF RefInv
<1> QED
  BY ReferencesInvariant, <1>1, PTL
=============================================================================
