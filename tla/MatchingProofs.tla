--------------------------- MODULE MatchingProofs ----------------------------
(***************************************************************************)
(* Theorems about Matching, for every set of users, cards, transactions    *)
(* and reports, every delivered table, and every interleaving.             *)
(***************************************************************************)
EXTENDS Matching, SequenceTheorems, FiniteSetTheorems, TLAPS

USE MatchingAssumption

-----------------------------------------------------------------------------
(* The inductive invariant                                                 *)

\* A transaction that an item of the report may carry.
Usable(r, t) == card[txn[t].card].user_id = Owner[r] /\ ~txn[t].is_cancelled

\* An item that was checked is one of the owner's when it is written: neither the
\* transaction nor the owner of its card ever changes.
WorkIsUsable ==
  \A w \in Workers : ~Idle(w) =>
    /\ work[w].report \in Reports
    /\ work[w].transaction \in Transactions \cup {None}
    /\ work[w].transaction # None => Usable(work[w].report, work[w].transaction)

MatchInv == ItemsInv /\ DOMAIN work = Workers /\ WorkIsUsable

-----------------------------------------------------------------------------
(* Sequences                                                               *)

\* A sequence without one of its elements.
LEMMA RemoveAtProperties ==
  ASSUME NEW S, NEW s \in Seq(S), NEW i \in 1..Len(s)
  PROVE  /\ RemoveAt(s, i) \in Seq(S)
         /\ Len(RemoveAt(s, i)) = Len(s) - 1
         /\ \A j \in 1..Len(s) - 1 : RemoveAt(s, i)[j] = IF j < i THEN s[j] ELSE s[j + 1]
<1> DEFINE a == SubSeq(s, 1, i - 1)
           b == SubSeq(s, i + 1, Len(s))
<1>1. Len(s) \in Nat /\ i \in Nat
  BY LenProperties
<1>2. /\ a \in Seq(S) /\ Len(a) = i - 1
      /\ \A j \in 1..i - 1 : a[j] = s[j]
  BY <1>1, SubSeqProperties
<1>3. /\ b \in Seq(S) /\ Len(b) = Len(s) - i
      /\ \A j \in 1..Len(s) - i : b[j] = s[i + j]
  BY <1>1, SubSeqProperties
<1> HIDE DEF a, b
<1>4. /\ a \o b \in Seq(S) /\ Len(a \o b) = Len(a) + Len(b)
      /\ \A j \in 1..Len(a) + Len(b) : (a \o b)[j] = IF j <= Len(a) THEN a[j] ELSE b[j - Len(a)]
  <2>1. a \in Seq(S) /\ b \in Seq(S)
    BY <1>2, <1>3
  <2> QED
    BY <2>1, ConcatProperties
<1>5. Len(a) + Len(b) = Len(s) - 1
  BY <1>1, <1>2, <1>3
<1>6. \A j \in 1..Len(s) - 1 : (a \o b)[j] = IF j < i THEN s[j] ELSE s[j + 1]
  <2> SUFFICES ASSUME NEW j \in 1..Len(s) - 1
               PROVE  (a \o b)[j] = IF j < i THEN s[j] ELSE s[j + 1]
    OBVIOUS
  <2>1. CASE j < i
    BY <1>1, <1>2, <1>4, <1>5, <2>1
  <2>2. CASE ~(j < i)
    <3>1. (a \o b)[j] = b[j - (i - 1)]
      BY <1>1, <1>2, <1>4, <1>5, <2>2
    <3>2. j - (i - 1) \in 1..Len(s) - i /\ i + (j - (i - 1)) = j + 1
      BY <1>1, <2>2
    <3> QED
      BY <1>3, <2>2, <3>1, <3>2
  <2> QED
    BY <2>1, <2>2
<1> QED
  BY <1>4, <1>5, <1>6 DEF RemoveAt, a, b

\* Appending adds one element to those of a sequence.
LEMMA AppendedElements ==
  ASSUME NEW S, NEW s \in Seq(S), NEW e \in S
  PROVE  /\ Append(s, e) \in Seq(S)
         /\ ToSet(Append(s, e)) = ToSet(s) \cup {e}
         /\ DOMAIN Append(s, e) = 1..Len(s) + 1 /\ DOMAIN s = 1..Len(s) /\ Len(s) \in Nat
         /\ \A i \in 1..Len(s) : Append(s, e)[i] = s[i]
         /\ Append(s, e)[Len(s) + 1] = e
<1>1. /\ Append(s, e) \in Seq(S) /\ Len(Append(s, e)) = Len(s) + 1
      /\ \A i \in 1..Len(s) : Append(s, e)[i] = s[i]
      /\ Append(s, e)[Len(s) + 1] = e
  BY AppendProperties
<1>2. DOMAIN Append(s, e) = 1..Len(s) + 1 /\ DOMAIN s = 1..Len(s) /\ Len(s) \in Nat
  BY <1>1, LenProperties
<1>3. ToSet(Append(s, e)) = ToSet(s) \cup {e}
  BY <1>1, <1>2 DEF ToSet
<1> QED
  BY <1>1, <1>2, <1>3

\* Nothing is in the shorter sequence that was not in the longer one, and nothing
\* twice that was not there twice.
LEMMA RemovedElements ==
  ASSUME NEW S, NEW s \in Seq(S), NEW i \in DOMAIN s
  PROVE  /\ RemoveAt(s, i) \in Seq(S)
         /\ \A j \in DOMAIN RemoveAt(s, i) :
              /\ (IF j < i THEN j ELSE j + 1) \in DOMAIN s
              /\ RemoveAt(s, i)[j] = s[IF j < i THEN j ELSE j + 1]
              /\ j \in Nat
<1>1. DOMAIN s = 1..Len(s) /\ Len(s) \in Nat
  BY LenProperties
<1>2. /\ RemoveAt(s, i) \in Seq(S) /\ Len(RemoveAt(s, i)) = Len(s) - 1
      /\ \A j \in 1..Len(s) - 1 : RemoveAt(s, i)[j] = IF j < i THEN s[j] ELSE s[j + 1]
  <2>1. i \in 1..Len(s)
    BY <1>1
  <2> QED
    BY <2>1, RemoveAtProperties
<1>3. DOMAIN RemoveAt(s, i) = 1..Len(s) - 1
  BY <1>2, LenProperties
<1> QED
  BY <1>1, <1>2, <1>3

-----------------------------------------------------------------------------
(* Steps                                                                   *)

\* Cards may come and go: as long as those of the transactions keep their owner,
\* nothing that was usable stops being it.
LEMMA CardsKeep ==
  ASSUME MatchInv, card' \in [Cards -> CardRow \cup {None}],
         \A t \in Transactions : /\ card'[txn[t].card] # None
                                 /\ card'[txn[t].card].user_id = card[txn[t].card].user_id,
         UNCHANGED <<txn, status, items, work>>
  PROVE  MatchInv'
<1>1. TypeOK'
  BY DEF MatchInv, ItemsInv, TypeOK, Idle
<1>2. \A r \in Reports : TakenBy(r) \subseteq Transactions
  <2> SUFFICES ASSUME NEW r \in Reports PROVE TakenBy(r) \subseteq Transactions
    OBVIOUS
  <2>1. items[r] \in Seq(Transactions \cup {None})
    BY DEF MatchInv, ItemsInv, TypeOK
  <2>2. \A i \in DOMAIN items[r] : items[r][i] \in Transactions \cup {None}
    BY <2>1, ElementOfSeq, LenProperties
  <2> QED
    BY <2>2 DEF TakenBy, ToSet
<1>3. ItemsAreTheOwners'
  <2>1. \A r \in Reports : TakenBy(r)' = TakenBy(r)
    BY DEF TakenBy
  <2>2. \A r \in Reports : \A t \in TakenBy(r) :
          card'[txn[t].card].user_id = Owner[r] /\ ~txn[t].is_cancelled
    BY <1>2 DEF MatchInv, ItemsInv, ItemsAreTheOwners
  <2>3. \A r \in Reports : \A i, j \in DOMAIN items[r] :
          items[r][i] = items[r][j] /\ items[r][i] # None => i = j
    BY DEF MatchInv, ItemsInv, ItemsAreTheOwners
  <2> QED
    BY <2>1, <2>2, <2>3 DEF ItemsAreTheOwners
<1>4. WorkIsUsable'
  BY DEF MatchInv, WorkIsUsable, Usable, Idle
<1> QED
  BY <1>1, <1>3, <1>4 DEF MatchInv, ItemsInv

\* The card of a transaction stays its user's, whatever the administration does.
LEMMA AdministrationKeeps ==
  ASSUME MatchInv, NEW c \in Cards,
         \/ \E u \in Users, active \in BOOLEAN : create_card(c, u, active)
         \/ update_card(c)
         \/ delete_card(c)
  PROVE  MatchInv'
<1>1. /\ card \in [Cards -> CardRow \cup {None}] /\ txn \in [Transactions -> TransactionRow]
      /\ \A t \in Transactions : card[txn[t].card] # None /\ txn[t].card \in Cards
  BY DEF MatchInv, ItemsInv, TypeOK, TransactionRow
<1>2. CASE \E u \in Users, active \in BOOLEAN : create_card(c, u, active)
  <2>1. PICK u \in Users, active \in BOOLEAN : create_card(c, u, active)
    BY <1>2
  <2>2. PICK row \in CardRow : row = [user_id |-> u, is_active |-> active]
    BY DEF CardRow
  <2>3. card' = [card EXCEPT ![c] = row] /\ card[c] = None /\ UNCHANGED <<txn, status, items, work>>
    BY <2>1, <2>2 DEF create_card
  <2>4. card' \in [Cards -> CardRow \cup {None}]
    BY <1>1, <2>3
  <2>5. \A t \in Transactions : card'[txn[t].card] = card[txn[t].card]
    BY <1>1, <2>3
  <2> QED
    BY <1>1, <2>3, <2>4, <2>5, CardsKeep
<1>3. CASE update_card(c)
  <2>1. PICK row \in CardUpdates(card[c]) : card' = [card EXCEPT ![c] = row]
    BY <1>3 DEF update_card
  <2>2. card[c] \in CardRow
    BY <1>1, <1>3 DEF update_card
  <2>3. row \in CardRow /\ row.user_id = card[c].user_id
    BY <2>2 DEF CardUpdates, CardRow
  <2>4. UNCHANGED <<txn, status, items, work>>
    BY <1>3 DEF update_card
  <2>5. card' \in [Cards -> CardRow \cup {None}]
    BY <1>1, <2>1, <2>3
  <2>6. \A t \in Transactions : /\ card'[txn[t].card] # None
                                /\ card'[txn[t].card].user_id = card[txn[t].card].user_id
    BY <1>1, <2>1, <2>3
  <2> QED
    BY <2>4, <2>5, <2>6, CardsKeep
<1>4. CASE delete_card(c)
  <2>1. /\ card' = [card EXCEPT ![c] = None] /\ \A t \in Transactions : txn[t].card # c
        /\ UNCHANGED <<txn, status, items, work>>
    BY <1>4 DEF delete_card, Unreferenced
  <2>2. card' \in [Cards -> CardRow \cup {None}]
    BY <1>1, <2>1
  <2>3. \A t \in Transactions : card'[txn[t].card] = card[txn[t].card]
    BY <1>1, <2>1
  <2> QED
    BY <1>1, <2>1, <2>2, <2>3, CardsKeep
<1> QED
  BY <1>2, <1>3, <1>4

\* Requests that write no item.
LEMMA RequestKeeps ==
  ASSUME MatchInv, NEW w \in Workers,
         \/ \E r \in Reports, t \in Transactions \cup {None} : add_item(w, r, t)
         \/ Rollback(w)
  PROVE  MatchInv'
<1>1. UNCHANGED <<card, txn, status, items>>
  BY DEF add_item, Rollback
<1>2. ItemsAreTheOwners'
  BY <1>1 DEF MatchInv, ItemsInv, ItemsAreTheOwners, TakenBy
<1>3. DOMAIN work' = Workers /\ WorkIsUsable'
  <2>1. ASSUME NEW r \in Reports, NEW t \in Transactions \cup {None}, add_item(w, r, t)
        PROVE  DOMAIN work' = Workers /\ WorkIsUsable'
    <3>1. PICK new : new = [report |-> r, transaction |-> t]
      OBVIOUS
    <3>2. work' = [work EXCEPT ![w] = new]
      BY <2>1, <3>1 DEF add_item
    <3>3. t # None => Usable(r, t)
      BY <2>1 DEF add_item, _assert_usable_transaction, TransactionsOf, load_my_cards, Usable
    <3>4. DOMAIN work' = Workers /\ work'[w] = new /\ \A v \in Workers : v # w => work'[v] = work[v]
      BY <3>2 DEF MatchInv
    <3> QED
      BY <1>1, <3>1, <3>3, <3>4 DEF MatchInv, WorkIsUsable, Usable, Idle
  <2>2. CASE Rollback(w)
    BY <1>1, <2>2 DEF Rollback, MatchInv, WorkIsUsable, Usable, Idle
  <2> QED
    BY <2>1, <2>2
<1>4. TypeOK'
  BY <1>1, <1>3 DEF MatchInv, ItemsInv, TypeOK, WorkIsUsable
<1> QED
  BY <1>2, <1>3, <1>4 DEF MatchInv, ItemsInv

\* A change of status touches nothing the invariant is about, nor does a stutter.
LEMMA QuietKeeps ==
  ASSUME MatchInv,
         \/ \E r \in Reports, target \in ReportStatuses : change_status(r, target)
         \/ UNCHANGED vars
  PROVE  MatchInv'
<1>1. UNCHANGED <<card, txn, items, work>>
  BY DEF change_status, vars
<1>2. status' \in [Reports -> ReportStatuses]
  BY DEF MatchInv, ItemsInv, TypeOK, change_status, vars
<1>3. ItemsAreTheOwners'
  BY <1>1 DEF MatchInv, ItemsInv, ItemsAreTheOwners, TakenBy
<1> QED
  BY <1>1, <1>2, <1>3 DEF MatchInv, ItemsInv, TypeOK, WorkIsUsable, Usable, Idle

\* The unique constraint decides again when the item is written.
LEMMA CommitItemKeeps ==
  ASSUME MatchInv, NEW w \in Workers, CommitItem(w)
  PROVE  MatchInv'
<1>1. PICK r \in Reports, t \in Transactions \cup {None} :
        /\ r = work[w].report /\ t = work[w].transaction
        /\ t # None => Usable(r, t)
  BY DEF CommitItem, MatchInv, WorkIsUsable
<1>2. /\ t = None \/ t \notin TakenBy(r)
      /\ items' = [items EXCEPT ![r] = Append(@, t)]
      /\ work' = [work EXCEPT ![w] = None]
      /\ UNCHANGED <<card, txn, status>>
  BY <1>1 DEF CommitItem, uq_expense_item_report_txn
<1>3. items \in [Reports -> Seq(Transactions \cup {None})]
  BY DEF MatchInv, ItemsInv, TypeOK
<1>4. PICK s \in Seq(Transactions \cup {None}) : s = items[r]
  BY <1>3
<1>5. /\ Append(s, t) \in Seq(Transactions \cup {None})
      /\ ToSet(Append(s, t)) = ToSet(s) \cup {t}
      /\ DOMAIN Append(s, t) = 1..Len(s) + 1 /\ DOMAIN s = 1..Len(s) /\ Len(s) \in Nat
      /\ \A i \in 1..Len(s) : Append(s, t)[i] = s[i]
      /\ Append(s, t)[Len(s) + 1] = t
  BY AppendedElements
<1>6. /\ items'[r] = Append(s, t) /\ \A q \in Reports : q # r => items'[q] = items[q]
      /\ items' \in [Reports -> Seq(Transactions \cup {None})]
  BY <1>2, <1>3, <1>4, <1>5
<1>7. DOMAIN work' = Workers /\ WorkIsUsable'
  BY <1>2 DEF MatchInv, WorkIsUsable, Usable, Idle
<1>8. TypeOK'
  BY <1>2, <1>6, <1>7 DEF MatchInv, ItemsInv, TypeOK, WorkIsUsable
<1>9. ItemsAreTheOwners'
  <2> SUFFICES ASSUME NEW q \in Reports
               PROVE  /\ \A x \in TakenBy(q)' : Usable(q, x)
                      /\ \A i, j \in DOMAIN items'[q] :
                           items'[q][i] = items'[q][j] /\ items'[q][i] # None => i = j
    BY <1>2 DEF ItemsAreTheOwners, Usable
  <2>1. CASE q # r
    <3>1. items'[q] = items[q]
      BY <1>6, <2>1
    <3>2. TakenBy(q)' = TakenBy(q)
      BY <3>1 DEF TakenBy
    <3> QED
      BY <3>1, <3>2 DEF MatchInv, ItemsInv, ItemsAreTheOwners, Usable
  <2>2. CASE q = r
    <3>1. \A x \in TakenBy(r)' : Usable(r, x)
      <4>1. \A x \in TakenBy(r) : Usable(r, x)
        BY DEF MatchInv, ItemsInv, ItemsAreTheOwners, Usable
      <4>2. TakenBy(r) = ToSet(s) \ {None} /\ TakenBy(r)' = (ToSet(s) \cup {t}) \ {None}
        BY <1>4, <1>5, <1>6 DEF TakenBy
      <4>3. t # None => Usable(r, t)
        BY <1>1
      <4> QED
        BY <4>1, <4>2, <4>3
    <3>2. \A i \in DOMAIN s : s[i] = t => t = None
      BY <1>2, <1>4 DEF TakenBy, ToSet
    <3>3. \A i, j \in DOMAIN s : s[i] = s[j] /\ s[i] # None => i = j
      BY <1>4 DEF MatchInv, ItemsInv, ItemsAreTheOwners
    <3>4. ASSUME NEW i \in DOMAIN Append(s, t), NEW j \in DOMAIN Append(s, t),
                 Append(s, t)[i] = Append(s, t)[j], Append(s, t)[i] # None
          PROVE  i = j
      <4>1. /\ i \in 1..Len(s) \/ i = Len(s) + 1
            /\ j \in 1..Len(s) \/ j = Len(s) + 1
        BY <1>5
      <4>2. CASE i \in 1..Len(s) /\ j \in 1..Len(s)
        <5>1. s[i] = s[j] /\ s[i] # None
          BY <1>5, <3>4, <4>2
        <5> QED
          BY <1>5, <3>3, <4>2, <5>1
      <4>3. CASE i \in 1..Len(s) /\ j = Len(s) + 1
        <5>1. s[i] = t /\ t # None
          BY <1>5, <3>4, <4>3
        <5> QED
          BY <1>5, <3>2, <4>3, <5>1
      <4>4. CASE i = Len(s) + 1 /\ j \in 1..Len(s)
        <5>1. s[j] = t /\ t # None
          BY <1>5, <3>4, <4>4
        <5> QED
          BY <1>5, <3>2, <4>4, <5>1
      <4> QED
        BY <4>1, <4>2, <4>3, <4>4
    <3>5. \A x \in TakenBy(q)' : Usable(q, x)
      BY <2>2, <3>1
    <3>6. items'[q] = Append(s, t)
      BY <1>6, <2>2
    <3>7. \A i, j \in DOMAIN items'[q] :
            items'[q][i] = items'[q][j] /\ items'[q][i] # None => i = j
      BY <3>4, <3>6
    <3> QED
      BY <3>5, <3>7
  <2> QED
    BY <2>1, <2>2
<1> QED
  BY <1>7, <1>8, <1>9 DEF MatchInv, ItemsInv

\* An item that goes leaves the others as they were.
LEMMA DeleteItemKeeps ==
  ASSUME MatchInv, NEW r \in Reports, NEW k \in DOMAIN items[r], delete_item(r, k)
  PROVE  MatchInv'
<1>1. items' = [items EXCEPT ![r] = RemoveAt(@, k)] /\ UNCHANGED <<card, txn, status, work>>
  BY DEF delete_item
<1>2. items \in [Reports -> Seq(Transactions \cup {None})]
  BY DEF MatchInv, ItemsInv, TypeOK
<1>3. PICK s \in Seq(Transactions \cup {None}) : s = items[r]
  BY <1>2
<1>4. PICK new : new = RemoveAt(s, k)
  OBVIOUS
<1>5. /\ new \in Seq(Transactions \cup {None}) /\ k \in DOMAIN s
      /\ \A j \in DOMAIN new : /\ (IF j < k THEN j ELSE j + 1) \in DOMAIN s
                               /\ new[j] = s[IF j < k THEN j ELSE j + 1]
                               /\ j \in Nat
  BY <1>3, <1>4, RemovedElements
<1>6. /\ items'[r] = new /\ \A q \in Reports : q # r => items'[q] = items[q]
      /\ items' \in [Reports -> Seq(Transactions \cup {None})]
  BY <1>1, <1>2, <1>3, <1>4, <1>5
<1>7. WorkIsUsable'
  BY <1>1 DEF MatchInv, WorkIsUsable, Usable, Idle
<1>8. TypeOK'
  BY <1>1, <1>6 DEF MatchInv, ItemsInv, TypeOK, Idle
<1>9. ItemsAreTheOwners'
  <2> SUFFICES ASSUME NEW q \in Reports
               PROVE  /\ \A x \in TakenBy(q)' : Usable(q, x)
                      /\ \A i, j \in DOMAIN items'[q] :
                           items'[q][i] = items'[q][j] /\ items'[q][i] # None => i = j
    BY <1>1 DEF ItemsAreTheOwners, Usable
  <2>1. CASE q # r
    <3>1. items'[q] = items[q]
      BY <1>6, <2>1
    <3>2. TakenBy(q)' = TakenBy(q)
      BY <3>1 DEF TakenBy
    <3> QED
      BY <3>1, <3>2 DEF MatchInv, ItemsInv, ItemsAreTheOwners, Usable
  <2>2. CASE q = r
    <3>1. ToSet(new) \subseteq ToSet(s)
      BY <1>5 DEF ToSet
    <3>2. \A x \in TakenBy(r)' : Usable(r, x)
      BY <1>3, <1>6, <3>1 DEF MatchInv, ItemsInv, ItemsAreTheOwners, TakenBy, Usable
    <3>3. \A i, j \in DOMAIN s : s[i] = s[j] /\ s[i] # None => i = j
      BY <1>3 DEF MatchInv, ItemsInv, ItemsAreTheOwners
    <3>4. DOMAIN s \subseteq Nat
      BY LenProperties
    <3>5. ASSUME NEW i \in DOMAIN new, NEW j \in DOMAIN new, new[i] = new[j], new[i] # None
          PROVE  i = j
      BY <1>5, <3>3, <3>4, <3>5
    <3>6. \A x \in TakenBy(q)' : Usable(q, x)
      BY <2>2, <3>2
    <3>7. items'[q] = new
      BY <1>6, <2>2
    <3>8. \A i, j \in DOMAIN items'[q] :
            items'[q][i] = items'[q][j] /\ items'[q][i] # None => i = j
      BY <3>5, <3>7
    <3> QED
      BY <3>6, <3>8
  <2> QED
    BY <2>1, <2>2
<1> QED
  BY <1>1, <1>7, <1>8, <1>9 DEF MatchInv, ItemsInv

\* The delivered tables, before the first item.
LEMMA InitItems == Init => MatchInv
<1> SUFFICES ASSUME Init PROVE MatchInv
  OBVIOUS
<1>1. \A w \in Workers : Idle(w)
  BY DEF Init, Idle
<1>2. \A r \in Reports : items[r] = <<>> /\ DOMAIN items[r] = {} /\ TakenBy(r) = {}
  BY DEF Init, TakenBy, ToSet
<1>3. items \in [Reports -> Seq(Transactions \cup {None})]
  BY DEF Init
<1>4. TypeOK
  BY <1>1, <1>3 DEF Init, TypeOK, ReportStatuses
<1>5. ItemsAreTheOwners
  BY <1>2 DEF ItemsAreTheOwners
<1> QED
  BY <1>1, <1>4, <1>5 DEF MatchInv, ItemsInv, WorkIsUsable, Init

\* Every step keeps the invariant.
LEMMA StepKeeps ==
  ASSUME MatchInv, [Next]_vars
  PROVE  MatchInv'
<1>1. ASSUME NEW w \in Workers, CommitItem(w) PROVE MatchInv'
  BY <1>1, CommitItemKeeps
<1>2. ASSUME NEW r \in Reports, NEW k \in DOMAIN items[r], delete_item(r, k) PROVE MatchInv'
  BY <1>2, DeleteItemKeeps
<1>3. ASSUME NEW r \in Reports, NEW target \in ReportStatuses, change_status(r, target)
      PROVE  MatchInv'
  BY <1>3, QuietKeeps
<1>4. CASE UNCHANGED vars
  BY <1>4, QuietKeeps
<1> QED
  BY <1>1, <1>2, <1>3, <1>4, RequestKeeps, AdministrationKeeps DEF Next

-----------------------------------------------------------------------------
(* Lists and dates                                                         *)

\* A moment is of a date in KST exactly if it is between the two midnights.
LEMMA DayBounds ==
  ASSUME NEW moment \in Int, NEW day \in Int
  PROVE  local_date(moment) = day <=> _start_of(day) <= moment /\ moment < _start_of(day + 1)
  BY DEF local_date, _start_of, midnight_utc, Day, KST

\* An item of another user's report is not one of this user's transactions.
LEMMA TakenByOwners ==
  ASSUME MatchInv, NEW u \in Users, NEW t \in TransactionsOf(u), NEW r \in Reports, t \in TakenBy(r)
  PROVE  Owner[r] = u
  BY DEF MatchInv, ItemsInv, ItemsAreTheOwners, TransactionsOf, load_my_cards

\* The list of a user and a day: what it shows, and what it offers as unsettled.
LEMMA ListOfDay ==
  ASSUME MatchInv, NEW u \in Users, NEW d \in Int, NEW t \in TransactionsOf(u)
  PROVE  /\ t \in list_card_transactions(u, d, d, FALSE)
              <=> ~txn[t].is_cancelled /\ local_date(txn[t].approved_at) = d
         /\ t \in list_card_transactions(u, d, d, TRUE)
              <=> /\ t \in list_card_transactions(u, d, d, FALSE)
                  /\ \A r \in Reports : Owner[r] = u => _assert_usable_transaction(r, t)
<1>1. t \in Transactions /\ txn[t].approved_at \in Int
  BY DEF TransactionsOf, MatchInv, ItemsInv, TypeOK, TransactionRow
<1>2. local_date(txn[t].approved_at) = d
        <=> _start_of(d) <= txn[t].approved_at /\ txn[t].approved_at < _start_of(d + 1)
  BY <1>1, DayBounds
<1>3. _start_of(d) \in Int
  BY DEF _start_of, midnight_utc, Day, KST
<1>4. t \in list_card_transactions(u, d, d, FALSE)
        <=> ~txn[t].is_cancelled /\ local_date(txn[t].approved_at) = d
  BY <1>1, <1>2, <1>3 DEF list_card_transactions
<1>5. NotIn(t, TakenIds) <=> \A r \in Reports : t \notin TakenBy(r)
  BY <1>1 DEF NotIn, TakenIds, TakenBy
<1>6. ASSUME ~txn[t].is_cancelled
      PROVE  (\A r \in Reports : t \notin TakenBy(r))
               <=> (\A r \in Reports : Owner[r] = u => _assert_usable_transaction(r, t))
  BY <1>6, TakenByOwners DEF _assert_usable_transaction
<1> QED
  BY <1>4, <1>5, <1>6 DEF list_card_transactions

-----------------------------------------------------------------------------
(* Theorems                                                                *)

\* Every state the service reaches satisfies the invariant.
THEOREM MatchingInvariant == Spec => []MatchInv
<1>1. MatchInv /\ [Next]_vars => MatchInv'
  BY StepKeeps
<1> QED
  BY InitItems, <1>1, PTL DEF Spec

\* What stands in a report was charged to its owner and not cancelled, stands
\* there once, and its card is there, whatever requests overlap and whatever the
\* administration does with the cards.
THEOREM ItemsStayTheOwners == Spec => []ItemsInv
<1>1. MatchInv => ItemsInv
  BY DEF MatchInv
<1> QED
  BY MatchingInvariant, <1>1, PTL

\* The list of a day is the day's, and what it offers as unsettled is what can be
\* taken: for every moment, date, user and distribution of the items.
THEOREM DayListsAreExact == Spec => []ListsAreExact
<1>1. ASSUME MatchInv PROVE ListsAreExact
  <2>1. ASSUME NEW u \in Users, NEW d \in {local_date(txn[t].approved_at) : t \in Transactions}
        PROVE  /\ list_card_transactions(u, d, d, FALSE)
                    = {t \in TransactionsOf(u) :
                         ~txn[t].is_cancelled /\ local_date(txn[t].approved_at) = d}
               /\ list_card_transactions(u, d, d, TRUE)
                    = {t \in list_card_transactions(u, d, d, FALSE) :
                         \A r \in Reports : Owner[r] = u => _assert_usable_transaction(r, t)}
    <3>1. PICK s \in Transactions : d = local_date(txn[s].approved_at)
      BY <2>1
    <3>2. txn[s].approved_at \in Int
      BY <1>1 DEF MatchInv, ItemsInv, TypeOK, TransactionRow
    <3>3. d \in Int
      BY <3>1, <3>2 DEF local_date, KST, Day
    <3>4. /\ list_card_transactions(u, d, d, FALSE) \subseteq TransactionsOf(u)
          /\ list_card_transactions(u, d, d, TRUE) \subseteq TransactionsOf(u)
      BY DEF list_card_transactions
    <3>5. \A t \in TransactionsOf(u) :
            /\ t \in list_card_transactions(u, d, d, FALSE)
                 <=> ~txn[t].is_cancelled /\ local_date(txn[t].approved_at) = d
            /\ t \in list_card_transactions(u, d, d, TRUE)
                 <=> /\ t \in list_card_transactions(u, d, d, FALSE)
                     /\ \A r \in Reports : Owner[r] = u => _assert_usable_transaction(r, t)
      BY <1>1, <3>3, ListOfDay
    <3> QED
      BY <3>4, <3>5
  <2> QED
    BY <2>1 DEF ListsAreExact
<1> QED
  BY MatchingInvariant, <1>1, PTL

\* What a report is offered, before it is sorted.
QueryReadsTheWindow ==
  \A r \in Reports :
    in_window(Trip[r].start, Trip[r].end, Fetched(r), Locked(r))
      = {t \in Transactions : Due(r, t)}

\* Whatever report, trip and hour: what the query of the candidates reads, a day
\* wider than the window on each side and by UTC, contains everything the rule
\* offers by KST.
THEOREM PrefetchLosesNothing == Spec => []QueryReadsTheWindow
<1>1. ASSUME MatchInv, NEW r \in Reports
      PROVE  in_window(Trip[r].start, Trip[r].end, Fetched(r), Locked(r))
               = {t \in Transactions : Due(r, t)}
  <2>1. PICK start \in Int, end \in Int : start = Trip[r].start /\ end = Trip[r].end
    OBVIOUS
  <2>2. Fetched(r) \subseteq Transactions
    BY DEF Fetched, TransactionsOf
  <2>3. ASSUME NEW t \in Transactions
        PROVE  t \in in_window(start, end, Fetched(r), Locked(r)) <=> Due(r, t)
    <3>1. /\ txn[t].approved_at \in Int /\ txn[t].card \in Cards
          /\ card[txn[t].card] # None
      BY <1>1 DEF MatchInv, ItemsInv, TypeOK, TransactionRow
    <3>2. PICK moment \in Int : moment = txn[t].approved_at
      BY <3>1
    <3>3. local_date(moment) \in start - 1 .. end + 1
            <=> moment + 9 >= (start - 1) * 24 /\ moment + 9 < (end + 2) * 24
      BY DEF local_date, KST, Day
    <3>4. moment + 9 >= (start - 1) * 24 /\ moment + 9 < (end + 2) * 24
            => moment >= (start - 2) * 24 /\ moment < (end + 2 + 1) * 24
      OBVIOUS
    <3>5. t \in TransactionsOf(Owner[r]) <=> card[txn[t].card].user_id = Owner[r]
      BY <3>1 DEF TransactionsOf, load_my_cards
    <3>6. t \in Fetched(r)
            <=> /\ card[txn[t].card].user_id = Owner[r]
                /\ moment >= (start - 2) * 24 /\ moment < (end + 2 + 1) * 24
      BY <2>1, <3>2, <3>5 DEF Fetched, midnight_utc, Day, _FETCH_MARGIN_DAYS
    <3>7. t \notin Locked(r)
            <=> \A q \in Reports \ {r} : t \in TakenBy(q) => status[q] \in {"DRAFT", "REJECTED"}
      <4>1. \A q \in Reports : status[q] \in {"SUBMITTED", "APPROVED"}
                                 <=> status[q] \notin {"DRAFT", "REJECTED"}
        BY <1>1 DEF MatchInv, ItemsInv, TypeOK, ReportStatuses
      <4> QED
        BY <4>1 DEF Locked
    <3>8. t \in in_window(start, end, Fetched(r), Locked(r))
            <=> /\ t \in Fetched(r) /\ t \notin Locked(r) /\ ~txn[t].is_cancelled
                /\ local_date(moment) \in start - 1 .. end + 1
      BY <3>2 DEF in_window, WINDOW_DAYS
    <3>9. Due(r, t)
            <=> /\ card[txn[t].card].user_id = Owner[r] /\ ~txn[t].is_cancelled
                /\ moment + 9 >= (start - 1) * 24 /\ moment + 9 < (end + 2) * 24
                /\ t \notin Locked(r)
      BY <2>1, <3>2, <3>7 DEF Due, KST, midnight_utc, Day
    <3> QED
      BY <3>3, <3>4, <3>6, <3>8, <3>9
  <2> QED
    BY <2>1, <2>2, <2>3 DEF in_window
<1>2. MatchInv => QueryReadsTheWindow
  BY <1>1 DEF QueryReadsTheWindow
<1> QED
  BY MatchingInvariant, <1>2, PTL

-----------------------------------------------------------------------------
(* The order of the candidates                                             *)

\* By approval, then by id: a strict total order of the transactions.
LEMMA EarlierIsTotal ==
  ASSUME TypeOK
  PROVE  /\ \A t \in Transactions : ~Earlier(t, t)
         /\ \A t, u \in Transactions : t = u \/ Earlier(t, u) \/ Earlier(u, t)
         /\ \A t, u, v \in Transactions : Earlier(t, u) /\ Earlier(u, v) => Earlier(t, v)
<1>1. \A t \in Transactions : txn[t].approved_at \in Int /\ t \in Int
  BY DEF TypeOK, TransactionRow
<1>2. ASSUME NEW t \in Transactions, NEW u \in Transactions
      PROVE  ~Earlier(t, t) /\ (t = u \/ Earlier(t, u) \/ Earlier(u, t))
  <2>1. PICK a \in Int, b \in Int : a = txn[t].approved_at /\ b = txn[u].approved_at
    BY <1>1
  <2>2. t \in Int /\ u \in Int
    BY <1>1
  <2>3. /\ Earlier(t, t) <=> (a < a \/ (a = a /\ t < t))
        /\ Earlier(t, u) <=> (a < b \/ (a = b /\ t < u))
        /\ Earlier(u, t) <=> (b < a \/ (b = a /\ u < t))
    BY <2>1 DEF Earlier
  <2>4. ~(a < a) /\ ~(t < t) /\ (a < b \/ a = b \/ b < a) /\ (t < u \/ t = u \/ u < t)
    BY <2>1, <2>2
  <2> QED
    BY <2>3, <2>4
<1>3. ASSUME NEW t \in Transactions, NEW u \in Transactions, NEW v \in Transactions,
             Earlier(t, u), Earlier(u, v)
      PROVE  Earlier(t, v)
  <2>1. PICK a \in Int, b \in Int, c \in Int :
          a = txn[t].approved_at /\ b = txn[u].approved_at /\ c = txn[v].approved_at
    BY <1>1
  <2>2. t \in Int /\ u \in Int /\ v \in Int
    BY <1>1
  <2>3. /\ Earlier(t, u) <=> (a < b \/ (a = b /\ t < u))
        /\ Earlier(u, v) <=> (b < c \/ (b = c /\ u < v))
        /\ Earlier(t, v) <=> (a < c \/ (a = c /\ t < v))
    BY <2>1 DEF Earlier
  <2>4. /\ a < b /\ (b < c \/ b = c) => a < c
        /\ a = b /\ b < c => a < c
        /\ t < u /\ u < v => t < v
    BY <2>1, <2>2
  <2> QED
    BY <1>3, <2>3, <2>4
<1> QED
  BY <1>2, <1>3

\* A transaction and what comes before it.
UpTo(S, t) == {u \in S : u = t \/ Earlier(u, t)}

\* Each one is at a place of its own.
LEMMA Places ==
  ASSUME TypeOK, NEW S \in SUBSET Transactions, IsFiniteSet(S)
  PROVE  /\ Cardinality(S) \in Nat
         /\ \A t \in S : Cardinality(UpTo(S, t)) \in 1 .. Cardinality(S)
         /\ \A t, u \in S :
              Earlier(t, u) => Cardinality(UpTo(S, t)) < Cardinality(UpTo(S, u))
<1>1. \A T \in SUBSET S :
        /\ IsFiniteSet(T) /\ Cardinality(T) \in Nat
        /\ Cardinality(T) <= Cardinality(S)
        /\ T # {} => Cardinality(T) # 0
  BY FS_Subset, FS_CardinalityType, FS_EmptySet
<1>2. \A t \in S : UpTo(S, t) \in SUBSET S /\ t \in UpTo(S, t)
  BY DEF UpTo
<1>3. ASSUME NEW t \in S, NEW u \in S, Earlier(t, u)
      PROVE  Cardinality(UpTo(S, t)) < Cardinality(UpTo(S, u))
  <2>1. UpTo(S, t) \in SUBSET UpTo(S, u) /\ u \notin UpTo(S, t)
    BY <1>3, EarlierIsTotal DEF UpTo
  <2>2. /\ Cardinality(UpTo(S, t)) <= Cardinality(UpTo(S, u))
        /\ Cardinality(UpTo(S, t)) # Cardinality(UpTo(S, u))
    BY <1>1, <1>2, <2>1, FS_Subset
  <2> QED
    BY <1>1, <1>2, <2>2
<1>4. Cardinality(S) \in Nat
  BY FS_CardinalityType
<1>5. ASSUME NEW t \in S PROVE Cardinality(UpTo(S, t)) \in 1 .. Cardinality(S)
  BY <1>1, <1>2, <1>4
<1> QED
  BY <1>3, <1>4, <1>5

\* Sorting keeps what there is, and brings it into order: there is such a
\* sequence, with each transaction at its place.
LEMMA InOrderIsSorted ==
  ASSUME TypeOK, NEW S \in SUBSET Transactions, IsFiniteSet(S)
  PROVE  /\ ToSet(InOrder(S)) = S
         /\ \A i, j \in DOMAIN InOrder(S) : i < j => Earlier(InOrder(S)[i], InOrder(S)[j])
<1> DEFINE n == Cardinality(S)
           place == [t \in S |-> Cardinality(UpTo(S, t))]
           sorted == [i \in 1 .. n |-> CHOOSE t \in S : place[t] = i]
<1>1. n \in Nat
  BY Places
<1>2. IsFiniteSet(1 .. n) /\ Cardinality(1 .. n) = n
  BY <1>1, FS_Interval
<1>3. /\ place \in [S -> 1 .. n]
      /\ \A t, u \in S : Earlier(t, u) => place[t] < place[u]
  BY Places
<1> HIDE DEF place
<1>4. place \in Injection(S, 1 .. n)
  <2> SUFFICES ASSUME NEW t \in S, NEW u \in S, place[t] = place[u] PROVE t = u
    BY <1>3 DEF Injection, IsInjective
  <2>1. place[t] \in Int /\ place[u] \in Int
    BY <1>1, <1>3
  <2>2. ~Earlier(t, u) /\ ~Earlier(u, t)
    BY <1>3, <2>1
  <2> QED
    BY <2>2, EarlierIsTotal
<1>5. place \in Surjection(S, 1 .. n)
  BY <1>2, <1>4, FS_Injection
<1>6. ASSUME NEW i \in 1 .. n PROVE sorted[i] \in S /\ place[sorted[i]] = i
  <2>1. \E t \in S : place[t] = i
    BY <1>5 DEF Surjection
  <2> QED
    BY <2>1
<1> HIDE DEF sorted
<1>7. sorted \in [1 .. n -> S]
  BY <1>6 DEF sorted
<1>8. ASSUME NEW i \in 1 .. n, NEW j \in 1 .. n, i < j PROVE Earlier(sorted[i], sorted[j])
  <2>1. sorted[i] \in S /\ sorted[j] \in S /\ place[sorted[i]] = i /\ place[sorted[j]] = j
    BY <1>6
  <2>2. i \in Int /\ j \in Int /\ i # j /\ ~(j < i)
    BY <1>1, <1>8
  <2>3. Earlier(sorted[j], sorted[i]) => j < i
    <3>1. PICK t \in S, u \in S : t = sorted[i] /\ u = sorted[j]
      BY <2>1
    <3>2. Earlier(u, t) => place[u] < place[t]
      BY <1>3
    <3> QED
      BY <2>1, <3>1, <3>2
  <2> QED
    <3>1. sorted[i] # sorted[j] /\ ~Earlier(sorted[j], sorted[i])
      BY <2>1, <2>2, <2>3
    <3>2. sorted[i] \in Transactions /\ sorted[j] \in Transactions
      BY <2>1
    <3> QED
      BY <3>1, <3>2, EarlierIsTotal
<1>9. /\ InOrder(S) \in [1 .. n -> S]
      /\ \A i, j \in 1 .. n : i < j => Earlier(InOrder(S)[i], InOrder(S)[j])
  <2>1. /\ DOMAIN sorted = 1 .. n
        /\ \A s \in [1 .. n -> S] : DOMAIN s = 1 .. n
    BY <1>7
  <2>2. \E s \in [1 .. n -> S] : \A i, j \in DOMAIN s : i < j => Earlier(s[i], s[j])
    BY <1>7, <1>8, <2>1
  <2> QED
    BY <2>1, <2>2 DEF InOrder
<1>10. InOrder(S) \in Injection(1 .. n, S)
  <2> SUFFICES ASSUME NEW i \in 1 .. n, NEW j \in 1 .. n, InOrder(S)[i] = InOrder(S)[j]
               PROVE  i = j
    BY <1>9 DEF Injection, IsInjective
  <2>1. InOrder(S)[i] \in Transactions /\ ~Earlier(InOrder(S)[i], InOrder(S)[j])
         /\ ~Earlier(InOrder(S)[j], InOrder(S)[i])
    BY <1>9, EarlierIsTotal
  <2> QED
    BY <1>1, <1>9, <2>1
<1>11. InOrder(S) \in Surjection(1 .. n, S)
  BY <1>2, <1>10, FS_Injection
<1>12. /\ DOMAIN InOrder(S) = 1 .. n
       /\ \A i \in 1 .. n : InOrder(S)[i] \in S
       /\ \A t \in S : \E i \in 1 .. n : InOrder(S)[i] = t
  BY <1>9, <1>11 DEF Surjection
<1>13. ToSet(InOrder(S)) = S
  <2> HIDE DEF n
  <2>1. \A t : t \in ToSet(InOrder(S)) <=> \E i \in 1 .. n : t = InOrder(S)[i]
    BY <1>12 DEF ToSet
  <2>2. ASSUME NEW t \in ToSet(InOrder(S)) PROVE t \in S
    <3>1. PICK i \in 1 .. n : t = InOrder(S)[i]
      BY <2>1
    <3> QED
      BY <1>12, <3>1
  <2>3. ASSUME NEW t \in S PROVE t \in ToSet(InOrder(S))
    <3>1. PICK i \in 1 .. n : InOrder(S)[i] = t
      BY <1>12
    <3> QED
      BY <2>1, <3>1
  <2> QED
    BY <2>2, <2>3
<1> QED
  BY <1>9, <1>12, <1>13

\* Whatever is delivered and however requests overlap: a report is offered
\* exactly what the rule says by KST, in the order of approval (find_candidates
\* on what list_match_candidates fetches).  A table has finitely many rows.
THEOREM CandidatesAreTheRule ==
  ASSUME IsFiniteSet(Transactions)
  PROVE  Spec => []CandidatesAreExact
<1>1. ASSUME MatchInv, QueryReadsTheWindow, NEW r \in Reports
      PROVE  LET offered == list_match_candidates(r)
             IN /\ ToSet(offered) = {t \in Transactions : Due(r, t)}
                /\ \A i, j \in DOMAIN offered : i < j => Earlier(offered[i], offered[j])
  <2> DEFINE S == {t \in Transactions : Due(r, t)}
  <2>1. list_match_candidates(r) = InOrder(S)
    BY <1>1 DEF list_match_candidates, find_candidates, QueryReadsTheWindow
  <2>2. S \in SUBSET Transactions /\ IsFiniteSet(S)
    BY FS_Subset
  <2>3. TypeOK
    BY <1>1 DEF MatchInv, ItemsInv
  <2> HIDE DEF S
  <2>4. /\ ToSet(InOrder(S)) = S
        /\ \A i, j \in DOMAIN InOrder(S) : i < j => Earlier(InOrder(S)[i], InOrder(S)[j])
    BY <2>2, <2>3, InOrderIsSorted
  <2> QED
    BY <2>1, <2>4 DEF S
<1>2. MatchInv /\ QueryReadsTheWindow => CandidatesAreExact
  BY <1>1 DEF CandidatesAreExact
<1> QED
  BY <1>2, MatchingInvariant, PrefetchLosesNothing, PTL
=============================================================================
