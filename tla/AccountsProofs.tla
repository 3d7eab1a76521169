--------------------------- MODULE AccountsProofs ----------------------------
(***************************************************************************)
(* Theorems about Accounts, for every set of addresses and numbers and for *)
(* every interleaving of the requests.                                     *)
(***************************************************************************)
EXTENDS Accounts, TLAPS

USE AccountsAssumption

\* Only rows that exist are updated, and rows never go away.
UpdatesMeetRows ==
  \A w \in Workers : Busy(w) /\ work[w].kind = "UPDATE" => user[work[w].account] # None

\* What a request is about to write makes no account ACTIVE without a number:
\* the statement carries one, or the row has one already and keeps it.
WorkIsComplete ==
  \A w \in Workers : Busy(w) /\ work[w].set.status = "ACTIVE" =>
    /\ work[w].kind = "INSERT" => work[w].set.employee_no # None
    /\ work[w].kind = "UPDATE" =>
         work[w].set.employee_no # Keep \/ user[work[w].account].employee_no # None

AccountInv ==
  /\ TypeOK
  /\ UpdatesMeetRows
  /\ WorkIsComplete
  /\ ActiveAccountsAreComplete
  /\ SessionsWereApproved

-----------------------------------------------------------------------------
(* Handing over                                                            *)

\* What a request hands to its transaction.
Prepared(e, kind, set) ==
  /\ [account |-> e, kind |-> kind, set |-> set] \in Work
  /\ kind = "UPDATE" => user[e] # None
  /\ set.status = "ACTIVE" =>
       /\ kind = "INSERT" => set.employee_no # None
       /\ kind = "UPDATE" => set.employee_no # Keep \/ user[e].employee_no # None

\* Beginning a well-prepared transaction keeps the invariant.
LEMMA BeginKeeps ==
  ASSUME AccountInv, NEW w \in Workers, NEW e \in Accounts, NEW kind, NEW set,
         Prepared(e, kind, set), Begin(w, e, kind, set)
  PROVE  AccountInv'
<1>1. PICK r \in Work : r = [account |-> e, kind |-> kind, set |-> set]
  BY DEF Prepared
<1>2. /\ work' = [work EXCEPT ![w] = r]
      /\ user' = user /\ session' = session
      /\ r.account = e /\ r.kind = kind /\ r.set = set
  BY <1>1 DEF Begin
<1>3. work'[w] = r /\ \A v \in Workers : v # w => work'[v] = work[v]
  BY <1>2 DEF AccountInv, TypeOK
<1>4. TypeOK'
  BY <1>2 DEF AccountInv, TypeOK
<1>5. UpdatesMeetRows'
  BY <1>2, <1>3 DEF AccountInv, UpdatesMeetRows, Busy, Prepared
<1>6. WorkIsComplete'
  BY <1>2, <1>3 DEF AccountInv, WorkIsComplete, Busy, Prepared
<1>7. ActiveAccountsAreComplete' /\ SessionsWereApproved'
  BY <1>2 DEF AccountInv, ActiveAccountsAreComplete, SessionsWereApproved
<1> QED
  BY <1>4, <1>5, <1>6, <1>7 DEF AccountInv

\* Applications.
LEMMA PublicKeeps ==
  ASSUME AccountInv, NEW w \in Workers, Public(w)
  PROVE  AccountInv'
<1>1. ASSUME NEW e \in Accounts, signup(w, e) PROVE AccountInv'
  <2> DEFINE row == [status |-> "PENDING", is_active |-> "NO", role |-> "EMPLOYEE",
                     employee_no |-> None]
  <2>1. Prepared(e, "INSERT", row)
    BY DEF Prepared, Work, UserRow, UserStatuses, Roles
  <2>2. Begin(w, e, "INSERT", row)
    BY <1>1 DEF signup
  <2> QED
    BY <2>1, <2>2, BeginKeeps
<1>2. ASSUME NEW e \in Accounts, _resubmit(w, e) PROVE AccountInv'
  <2> DEFINE set == [NoChange EXCEPT !.status = "PENDING",
                                     !.is_active = Dirty(user[e].is_active, "NO")]
  <2>1. Prepared(e, "UPDATE", set)
    BY <1>2 DEF _resubmit, Prepared, Work, Change, NoChange, Dirty, UserStatuses
  <2>2. Begin(w, e, "UPDATE", set)
    BY <1>2 DEF _resubmit
  <2> QED
    BY <2>1, <2>2, BeginKeeps
<1> QED
  BY <1>1, <1>2 DEF Public

\* The administrator's requests.
LEMMA AdministrationKeeps ==
  ASSUME AccountInv, NEW w \in Workers, Administration(w)
  PROVE  AccountInv'
<1> SUFFICES ASSUME NEW a \in Accounts, NEW e \in Accounts,
                    \/ create_user(w, e)
                    \/ approve_user(w, e)
                    \/ reject_user(w, e)
                    \/ update_user(w, a, e)
             PROVE  AccountInv'
  BY DEF Administration
<1>1. user[e] # None => user[e] \in UserRow
  BY DEF AccountInv, TypeOK
<1>2. CASE create_user(w, e)
  <2>1. PICK n \in EmployeeNumbers, role \in Roles, active \in {"NO", "YES"} :
          Begin(w, e, "INSERT",
                [status |-> "ACTIVE", is_active |-> active, role |-> role, employee_no |-> n])
    BY <1>2 DEF create_user
  <2> DEFINE row == [status |-> "ACTIVE", is_active |-> active, role |-> role, employee_no |-> n]
  <2>2. Prepared(e, "INSERT", row)
    BY DEF Prepared, Work, UserRow, UserStatuses
  <2> QED
    BY <2>1, <2>2, BeginKeeps
<1>3. CASE approve_user(w, e)
  <2>1. PICK n \in EmployeeNumbers, role \in Roles :
          user[e] # None /\ Begin(w, e, "UPDATE", Approval(user[e], n, role))
    BY <1>3 DEF approve_user
  <2>2. Prepared(e, "UPDATE", Approval(user[e], n, role))
    <3>1. Approval(user[e], n, role) \in Change
      BY <1>1, <2>1 DEF Approval, Dirty, Change, UserStatuses, UserRow
    <3>2. Approval(user[e], n, role).employee_no # Keep \/ user[e].employee_no # None
      BY <1>1, <2>1 DEF Approval, Dirty, UserRow
    <3> QED
      BY <2>1, <3>1, <3>2 DEF Prepared, Work
  <2> QED
    BY <2>1, <2>2, BeginKeeps
<1>4. CASE reject_user(w, e)
  <2> DEFINE set == [NoChange EXCEPT !.status = "REJECTED",
                                     !.is_active = Dirty(user[e].is_active, "NO")]
  <2>1. Prepared(e, "UPDATE", set)
    BY <1>4 DEF reject_user, Prepared, Work, Change, NoChange, Dirty, UserStatuses
  <2>2. Begin(w, e, "UPDATE", set)
    BY <1>4 DEF reject_user
  <2> QED
    BY <2>1, <2>2, BeginKeeps
<1>5. CASE update_user(w, a, e)
  <2>1. PICK role \in Roles \cup {Keep}, active \in {"NO", "YES", Keep} :
          /\ user[e] # None
          /\ Begin(w, e, "UPDATE",
                   [NoChange EXCEPT !.role = Dirty(user[e].role, role),
                                    !.is_active = Dirty(user[e].is_active, active)])
    BY <1>5 DEF update_user
  <2> DEFINE set == [NoChange EXCEPT !.role = Dirty(user[e].role, role),
                                     !.is_active = Dirty(user[e].is_active, active)]
  <2>2. set \in Change /\ set.status = Keep
    BY DEF NoChange, Change, Dirty
  <2>3. Prepared(e, "UPDATE", set)
    BY <2>1, <2>2 DEF Prepared, Work
  <2> QED
    BY <2>1, <2>3, BeginKeeps
<1> QED
  BY <1>2, <1>3, <1>4, <1>5

-----------------------------------------------------------------------------
(* The end of a request                                                    *)

\* The account of a running request.
LEMMA WorkAccount ==
  ASSUME TypeOK, NEW w \in Workers, Busy(w)
  PROVE  work[w].account \in Accounts
  BY DEF TypeOK, Busy, Work

\* A new row.
LEMMA InsertKeeps ==
  ASSUME AccountInv, NEW w \in Workers, CommitInsert(w)
  PROVE  AccountInv'
<1>1. PICK r \in Work : r = work[w]
  BY DEF AccountInv, TypeOK, CommitInsert, Busy
<1>2. /\ r.kind = "INSERT" /\ r.account \in Accounts /\ r.set \in UserRow
      /\ user[r.account] = None
      /\ user' = [user EXCEPT ![r.account] = r.set]
      /\ work' = [work EXCEPT ![w] = None] /\ session' = session
  BY <1>1 DEF CommitInsert, Finish, Work
<1>3. r.set.status = "ACTIVE" => r.set.employee_no # None
  BY <1>1, <1>2 DEF AccountInv, WorkIsComplete, CommitInsert
<1>4. /\ user'[r.account] = r.set
      /\ \A e \in Accounts : e # r.account => user'[e] = user[e]
      /\ work'[w] = None
      /\ \A v \in Workers : v # w => work'[v] = work[v]
  BY <1>2 DEF AccountInv, TypeOK
<1>5. TypeOK'
  BY <1>2 DEF AccountInv, TypeOK
<1>6. UpdatesMeetRows' /\ WorkIsComplete'
  BY <1>2, <1>4, WorkAccount DEF AccountInv, UpdatesMeetRows, WorkIsComplete, Busy
<1>7. ActiveAccountsAreComplete' /\ SessionsWereApproved'
  BY <1>2, <1>3, <1>4 DEF AccountInv, ActiveAccountsAreComplete, SessionsWereApproved, TypeOK
<1> QED
  BY <1>5, <1>6, <1>7 DEF AccountInv

\* An update never takes a row or a number away.
LEMMA UpdateKeeps ==
  ASSUME AccountInv, NEW w \in Workers, CommitUpdate(w)
  PROVE  AccountInv'
<1>1. PICK r \in Work : r = work[w]
  BY DEF AccountInv, TypeOK, CommitUpdate, Busy
<1> DEFINE row == user[r.account]
<1>2. /\ r.kind = "UPDATE" /\ r.account \in Accounts /\ r.set \in Change
      /\ user' = [user EXCEPT ![r.account] = Flushed(r.set, row)]
      /\ work' = [work EXCEPT ![w] = None] /\ session' = session
  BY <1>1 DEF CommitUpdate, Finish, Work, AccountInv, TypeOK
<1>3. row # None /\ row \in UserRow
  BY <1>1, <1>2 DEF AccountInv, UpdatesMeetRows, CommitUpdate, TypeOK
<1>4. Flushed(r.set, row) \in UserRow
  BY <1>2, <1>3 DEF Flushed, UserRow, Change
<1>5. PICK new \in UserRow :
        /\ new = Flushed(r.set, row)
        /\ new.status = IF r.set.status = Keep THEN row.status ELSE r.set.status
        /\ new.employee_no = IF r.set.employee_no = Keep THEN row.employee_no ELSE r.set.employee_no
  BY <1>2, <1>3, <1>4 DEF Flushed, UserRow, Change
<1>6. new # None
  BY NullIsNoRow
<1>7. row.employee_no # None => new.employee_no # None
  BY <1>2, <1>5 DEF Change
<1>8. new.status = "ACTIVE" => new.employee_no # None
  <2>1. CASE r.set.status = Keep
    BY <1>2, <1>3, <1>5, <1>7, <2>1 DEF AccountInv, ActiveAccountsAreComplete
  <2>2. CASE r.set.status = "ACTIVE"
    <3>1. r.set.employee_no # Keep \/ row.employee_no # None
      BY <1>1, <1>2, <2>2 DEF AccountInv, WorkIsComplete, CommitUpdate
    <3> QED
      BY <1>2, <1>5, <1>7, <3>1 DEF Change
  <2> QED
    BY <1>2, <1>5, <2>1, <2>2 DEF Change, UserStatuses
<1>9. /\ user'[r.account] = new
      /\ \A e \in Accounts : e # r.account => user'[e] = user[e]
      /\ work'[w] = None
      /\ \A v \in Workers : v # w => work'[v] = work[v]
  BY <1>2, <1>5 DEF AccountInv, TypeOK
<1>10. TypeOK'
  BY <1>2, <1>4 DEF AccountInv, TypeOK
<1>11. UpdatesMeetRows' /\ WorkIsComplete'
  BY <1>6, <1>7, <1>9, WorkAccount DEF AccountInv, UpdatesMeetRows, WorkIsComplete, Busy
<1>12. ActiveAccountsAreComplete' /\ SessionsWereApproved'
  BY <1>2, <1>6, <1>7, <1>8, <1>9
     DEF AccountInv, ActiveAccountsAreComplete, SessionsWereApproved, TypeOK
<1> QED
  BY <1>10, <1>11, <1>12 DEF AccountInv

-----------------------------------------------------------------------------
(* The theorems                                                            *)

LEMMA InitAccounts == Init => AccountInv
<1> SUFFICES ASSUME Init PROVE AccountInv
  OBVIOUS
<1>1. PICK n \in EmployeeNumbers : n = CHOOSE m \in EmployeeNumbers : TRUE
  OBVIOUS
<1> DEFINE first == [status |-> "ACTIVE", is_active |-> "YES", role |-> "ADMIN", employee_no |-> n]
<1>0. first \in UserRow /\ first.employee_no = n
  BY DEF UserRow, UserStatuses, Roles
<1>2. PICK row \in UserRow : row = first /\ row.employee_no = n
  BY <1>0
<1>3. user = [e \in Accounts |-> IF e # FirstAdmin THEN None ELSE row]
  BY <1>1, <1>2 DEF Init
<1> QED
  BY <1>2, <1>3 DEF Init, AccountInv, TypeOK, UpdatesMeetRows, WorkIsComplete, Busy,
                    ActiveAccountsAreComplete, SessionsWereApproved

LEMMA NextAccounts ==
  ASSUME AccountInv, [Next]_vars
  PROVE  AccountInv'
<1>1. ASSUME NEW e \in Accounts, login(e) PROVE AccountInv'
  BY <1>1 DEF login, may_login, AccountInv, TypeOK, UpdatesMeetRows, WorkIsComplete, Busy,
              ActiveAccountsAreComplete, SessionsWereApproved
<1>2. ASSUME NEW e \in Accounts, TokenExpires(e) PROVE AccountInv'
  BY <1>2 DEF TokenExpires, AccountInv, TypeOK, UpdatesMeetRows, WorkIsComplete, Busy,
              ActiveAccountsAreComplete, SessionsWereApproved
<1>3. ASSUME NEW w \in Workers, Rollback(w) PROVE AccountInv'
  BY <1>3 DEF Rollback, Finish, AccountInv, TypeOK, UpdatesMeetRows, WorkIsComplete, Busy,
              ActiveAccountsAreComplete, SessionsWereApproved
<1>4. CASE UNCHANGED vars
  BY <1>4 DEF vars, AccountInv, TypeOK, UpdatesMeetRows, WorkIsComplete, Busy,
              ActiveAccountsAreComplete, SessionsWereApproved
<1> QED
  BY <1>1, <1>2, <1>3, <1>4, PublicKeeps, AdministrationKeeps, InsertKeeps, UpdateKeeps DEF Next

\* Rows, sessions and pending writes keep their types, whatever requests overlap.
THEOREM AccountTypes == Spec => []TypeOK
<1>1. AccountInv => TypeOK
  BY DEF AccountInv
<1> QED
  BY <1>1, InitAccounts, NextAccounts, PTL DEF Spec

\* The employee number the column no longer demands is there on every account that
\* is ACTIVE: approve_user enforces it in every interleaving.
THEOREM ActiveAreComplete == Spec => []ActiveAccountsAreComplete
<1>1. AccountInv => ActiveAccountsAreComplete
  BY DEF AccountInv
<1> QED
  BY <1>1, InitAccounts, NextAccounts, PTL DEF Spec

\* No token is out for an account no administrator approved or created, in every
\* interleaving: login looks at the status and not only at is_active.
THEOREM TokensWereApproved == Spec => []SessionsWereApproved
<1>1. AccountInv => SessionsWereApproved
  BY DEF AccountInv
<1> QED
  BY <1>1, InitAccounts, NextAccounts, PTL DEF Spec

-----------------------------------------------------------------------------
(* When requests do not overlap                                            *)

\* At most one request runs at a time.
Serial == \A v, w \in Workers : v = w

\* A row that lets an administrator in.
Administers(row) == row # None /\ may_login(row) /\ row.role = "ADMIN"

\* Whoever holds a token has an account that is ACTIVE, whether it is open now
\* or not: nothing leaves ACTIVE.
SessionsAreActive == \A e \in session : user[e] # None /\ user[e].status = "ACTIVE"

\* What a request is about to write was decided on the row as it still is: a
\* new row is a new account, an update makes one step of the diagram or none,
\* and an administrator who can sign in is left.
FreshUpdate(e, set) ==
  /\ user[e] # None
  /\ \/ Flushed(set, user[e]).status = user[e].status
     \/ <<user[e].status, Flushed(set, user[e]).status>> \in SIGNUP_ALLOWED_TRANSITIONS
  /\ \E x \in Accounts :
       Administers(user[x]) /\ (x = e => Administers(Flushed(set, user[e])))

Fresh(e, kind, set) ==
  /\ kind = "INSERT" => user[e] = None /\ set.status \in {"PENDING", "ACTIVE"}
  /\ kind = "UPDATE" => FreshUpdate(e, set)

WorkIsFresh ==
  \A w \in Workers : Busy(w) => Fresh(work[w].account, work[w].kind, work[w].set)

SerialInv ==
  /\ SessionsAreActive
  /\ AdminRemains
  /\ WorkIsFresh

\* The columns of a row after an UPDATE.
LEMMA FlushedColumns ==
  ASSUME NEW row \in UserRow, NEW set \in Change
  PROVE  /\ Flushed(set, row) \in UserRow
         /\ Flushed(set, row).status = IF set.status = Keep THEN row.status ELSE set.status
         /\ Flushed(set, row).is_active = IF set.is_active = Keep THEN row.is_active ELSE set.is_active
         /\ Flushed(set, row).role = IF set.role = Keep THEN row.role ELSE set.role
  BY DEF Flushed, UserRow, Change

\* Beginning a transaction on the row as it is keeps the invariant.
LEMMA BeginSerial ==
  ASSUME Serial, AccountInv, SerialInv, NEW w \in Workers, NEW e \in Accounts,
         NEW kind, NEW set, Fresh(e, kind, set), Begin(w, e, kind, set)
  PROVE  SerialInv'
<1>1. PICK r : r = [account |-> e, kind |-> kind, set |-> set]
  OBVIOUS
<1>2. /\ work' = [work EXCEPT ![w] = r]
      /\ user' = user /\ session' = session
      /\ r.account = e /\ r.kind = kind /\ r.set = set
  BY <1>1 DEF Begin
<1>3. work'[w] = r /\ \A v \in Workers : v = w
  BY <1>2 DEF AccountInv, TypeOK, Serial
<1>4. WorkIsFresh'
  BY <1>2, <1>3 DEF WorkIsFresh, Fresh, FreshUpdate
<1> QED
  BY <1>2, <1>4 DEF SerialInv, SessionsAreActive, AdminRemains

\* Applications touch rows that are new or REJECTED: no administrator's.
LEMMA PublicSerial ==
  ASSUME Serial, AccountInv, SerialInv, NEW w \in Workers, Public(w)
  PROVE  SerialInv'
<1>1. ASSUME NEW e \in Accounts, signup(w, e) PROVE SerialInv'
  <2> DEFINE row == [status |-> "PENDING", is_active |-> "NO", role |-> "EMPLOYEE",
                     employee_no |-> None]
  <2>1. Fresh(e, "INSERT", row) /\ Begin(w, e, "INSERT", row)
    BY <1>1 DEF signup, Fresh
  <2> QED
    BY <2>1, BeginSerial
<1>2. ASSUME NEW e \in Accounts, _resubmit(w, e) PROVE SerialInv'
  <2> DEFINE set == [NoChange EXCEPT !.status = "PENDING",
                                     !.is_active = Dirty(user[e].is_active, "NO")]
  <2>1. user[e] # None /\ user[e] \in UserRow /\ user[e].status = "REJECTED"
        /\ Begin(w, e, "UPDATE", set)
    BY <1>2 DEF _resubmit, AccountInv, TypeOK
  <2>2. set \in Change /\ set.status = "PENDING" /\ set.status # Keep
    BY DEF NoChange, Change, Dirty, UserStatuses
  <2>3. Flushed(set, user[e]).status = "PENDING"
    BY <2>1, <2>2, FlushedColumns
  <2>4. \E x \in Accounts : Administers(user[x]) /\ x # e
    BY <2>1 DEF SerialInv, AdminRemains, Administers, may_login
  <2>5. FreshUpdate(e, set)
    BY <2>1, <2>3, <2>4 DEF FreshUpdate, SIGNUP_ALLOWED_TRANSITIONS
  <2> QED
    BY <2>1, <2>5, BeginSerial DEF Fresh
<1> QED
  BY <1>1, <1>2 DEF Public

\* The administrator at work can sign in, and either is not the one changed or
\* keeps the role and the access (assert_not_demoting_self).
LEMMA AdministrationSerial ==
  ASSUME Serial, AccountInv, SerialInv, NEW w \in Workers, Administration(w)
  PROVE  SerialInv'
<1>0. PICK a \in Accounts, e \in Accounts :
        /\ AdminUser(a)
        /\ \/ create_user(w, e)
           \/ approve_user(w, e)
           \/ reject_user(w, e)
           \/ update_user(w, a, e)
  BY DEF Administration
<1>1. /\ Administers(user[a])
      /\ user[e] # None => user[e] \in UserRow
  BY <1>0 DEF AccountInv, TypeOK, SerialInv, SessionsAreActive, AdminUser, Authenticated,
              Administers, may_login
<1>2. ASSUME NEW set, Begin(w, e, "UPDATE", set), FreshUpdate(e, set) PROVE SerialInv'
  BY <1>2, BeginSerial DEF Fresh
<1>3. ASSUME user[e] # None, user[e].status = "PENDING", NEW set \in Change,
             set.status \in {"ACTIVE", "REJECTED"}
      PROVE  FreshUpdate(e, set)
  <2>1. a # e
    BY <1>1, <1>3 DEF Administers, may_login
  <2>2. Flushed(set, user[e]).status = set.status
    BY <1>1, <1>3, FlushedColumns
  <2> QED
    BY <1>1, <1>3, <2>1, <2>2 DEF FreshUpdate, SIGNUP_ALLOWED_TRANSITIONS
<1>4. CASE create_user(w, e)
  <2>1. PICK n \in EmployeeNumbers, role \in Roles, active \in {"NO", "YES"} :
          /\ user[e] = None
          /\ Begin(w, e, "INSERT",
                [status |-> "ACTIVE", is_active |-> active, role |-> role, employee_no |-> n])
    BY <1>4 DEF create_user
  <2> DEFINE row == [status |-> "ACTIVE", is_active |-> active, role |-> role, employee_no |-> n]
  <2>2. Fresh(e, "INSERT", row)
    BY <2>1 DEF Fresh
  <2> QED
    BY <2>1, <2>2, BeginSerial
<1>5. CASE approve_user(w, e)
  <2>1. PICK n \in EmployeeNumbers, role \in Roles :
          /\ user[e] # None
          /\ <<user[e].status, "ACTIVE">> \in SIGNUP_ALLOWED_TRANSITIONS
          /\ Begin(w, e, "UPDATE", Approval(user[e], n, role))
    BY <1>5 DEF approve_user
  <2>2. Approval(user[e], n, role) \in Change /\ Approval(user[e], n, role).status = "ACTIVE"
    BY <1>1, <2>1 DEF Approval, Dirty, Change, UserStatuses, UserRow
  <2>3. user[e].status = "PENDING"
    BY <2>1 DEF SIGNUP_ALLOWED_TRANSITIONS
  <2> QED
    BY <1>2, <1>3, <2>1, <2>2, <2>3
<1>6. CASE reject_user(w, e)
  <2> DEFINE set == [NoChange EXCEPT !.status = "REJECTED",
                                     !.is_active = Dirty(user[e].is_active, "NO")]
  <2>1. /\ user[e] # None
        /\ <<user[e].status, "REJECTED">> \in SIGNUP_ALLOWED_TRANSITIONS
        /\ Begin(w, e, "UPDATE", set)
    BY <1>6 DEF reject_user
  <2>2. set \in Change /\ set.status = "REJECTED"
    BY DEF NoChange, Change, Dirty, UserStatuses
  <2>3. user[e].status = "PENDING"
    BY <2>1 DEF SIGNUP_ALLOWED_TRANSITIONS
  <2> QED
    BY <1>2, <1>3, <2>1, <2>2, <2>3
<1>7. CASE update_user(w, a, e)
  <2>1. PICK role \in Roles \cup {Keep}, active \in {"NO", "YES", Keep} :
          /\ user[e] # None
          /\ assert_not_demoting_self(a, e, role, active)
          /\ Begin(w, e, "UPDATE",
                   [NoChange EXCEPT !.role = Dirty(user[e].role, role),
                                    !.is_active = Dirty(user[e].is_active, active)])
    BY <1>7 DEF update_user
  <2> DEFINE set == [NoChange EXCEPT !.role = Dirty(user[e].role, role),
                                     !.is_active = Dirty(user[e].is_active, active)]
  <2>2. /\ set \in Change /\ set.status = Keep
        /\ set.role = Dirty(user[e].role, role)
        /\ set.is_active = Dirty(user[e].is_active, active)
    BY DEF NoChange, Change, Dirty
  <2> HIDE DEF set
  <2>3. Flushed(set, user[e]).status = user[e].status
    BY <1>1, <2>1, <2>2, FlushedColumns
  <2>4. a = e => Administers(Flushed(set, user[e]))
    <3> SUFFICES ASSUME a = e PROVE Administers(Flushed(set, user[e]))
      OBVIOUS
    <3>1. user[e].role = "ADMIN" /\ user[e].is_active = "YES" /\ user[e].status = "ACTIVE"
      BY <1>1 DEF Administers, may_login
    <3>2. set.role \in {Keep, "ADMIN"} /\ set.is_active \in {Keep, "YES"}
      BY <2>1, <2>2, <3>1 DEF assert_not_demoting_self, Dirty
    <3>3. Flushed(set, user[e]) \in UserRow /\ Flushed(set, user[e]).role = "ADMIN"
          /\ Flushed(set, user[e]).is_active = "YES"
      BY <1>1, <2>1, <2>2, <3>1, <3>2, FlushedColumns
    <3> QED
      BY <2>3, <3>1, <3>3, NullIsNoRow DEF Administers, may_login
  <2>5. FreshUpdate(e, set)
    BY <1>1, <2>1, <2>3, <2>4 DEF FreshUpdate
  <2> QED
    BY <1>2, <2>1, <2>5 DEF set
<1> QED
  BY <1>0, <1>4, <1>5, <1>6, <1>7

\* What the end of a request does: it writes one new row or one row that had
\* been read, or nothing.
LEMMA CommitEffect ==
  ASSUME Serial, AccountInv, SerialInv, NEW w \in Workers,
         CommitInsert(w) \/ CommitUpdate(w) \/ Rollback(w)
  PROVE  \E e \in Accounts :
           /\ session' = session /\ \A v \in Workers : work'[v] = None
           /\ \A x \in Accounts : x # e => user'[x] = user[x]
           /\ \/ user' = user
              \/ user[e] = None /\ user'[e] \in UserRow
                   /\ user'[e].status \in {"PENDING", "ACTIVE"}
              \/ \E set \in Change :
                   FreshUpdate(e, set) /\ user[e] \in UserRow
                     /\ user'[e] = Flushed(set, user[e])
<1>1. PICK r \in Work : r = work[w]
  BY DEF AccountInv, TypeOK, CommitInsert, CommitUpdate, Rollback, Busy
<1>2. r.account \in Accounts /\ Fresh(r.account, r.kind, r.set)
  BY <1>1 DEF Work, SerialInv, WorkIsFresh, CommitInsert, CommitUpdate, Rollback
<1>3. session' = session /\ \A v \in Workers : work'[v] = None
  BY DEF CommitInsert, CommitUpdate, Rollback, Finish, Serial, AccountInv, TypeOK
<1>4. CASE CommitInsert(w)
  <2>1. /\ r.kind = "INSERT" /\ user' = [user EXCEPT ![r.account] = r.set] /\ r.set \in UserRow
    BY <1>1, <1>4 DEF CommitInsert, Work
  <2>2. /\ user'[r.account] = r.set
        /\ \A x \in Accounts : x # r.account => user'[x] = user[x]
    BY <1>2, <2>1 DEF AccountInv, TypeOK
  <2> QED
    BY <1>2, <1>3, <2>1, <2>2 DEF Fresh
<1>5. CASE CommitUpdate(w)
  <2>1. /\ r.kind = "UPDATE" /\ r.set \in Change
        /\ user' = [user EXCEPT ![r.account] = Flushed(r.set, user[r.account])]
    BY <1>1, <1>5 DEF CommitUpdate, Work
  <2>2. /\ user'[r.account] = Flushed(r.set, user[r.account])
        /\ \A x \in Accounts : x # r.account => user'[x] = user[x]
    BY <1>2, <2>1 DEF AccountInv, TypeOK
  <2>3. FreshUpdate(r.account, r.set) /\ user[r.account] \in UserRow
    BY <1>2, <2>1 DEF Fresh, FreshUpdate, AccountInv, TypeOK
  <2> QED
    BY <1>2, <1>3, <2>1, <2>2, <2>3
<1>6. CASE Rollback(w)
  BY <1>2, <1>3, <1>6 DEF Rollback
<1> QED
  BY <1>4, <1>5, <1>6

\* Nothing leaves ACTIVE, and an administrator who can sign in is left.
LEMMA CommitSerial ==
  ASSUME Serial, AccountInv, SerialInv, NEW w \in Workers,
         CommitInsert(w) \/ CommitUpdate(w) \/ Rollback(w)
  PROVE  SerialInv'
<1>1. PICK e \in Accounts :
        /\ session' = session /\ \A v \in Workers : work'[v] = None
        /\ \A x \in Accounts : x # e => user'[x] = user[x]
        /\ \/ user' = user
           \/ user[e] = None /\ user'[e] \in UserRow
                /\ user'[e].status \in {"PENDING", "ACTIVE"}
           \/ \E set \in Change :
                FreshUpdate(e, set) /\ user[e] \in UserRow
                  /\ user'[e] = Flushed(set, user[e])
  BY CommitEffect
<1>2. WorkIsFresh'
  BY <1>1 DEF WorkIsFresh, Busy
<1>3. CASE user' = user
  BY <1>1, <1>2, <1>3 DEF SerialInv, SessionsAreActive, AdminRemains
<1>4. CASE user[e] = None
  <2>1. SessionsAreActive'
    BY <1>1, <1>4 DEF SerialInv, SessionsAreActive, AccountInv, TypeOK
  <2>2. AdminRemains'
    BY <1>1, <1>4 DEF SerialInv, AdminRemains
  <2> QED
    BY <1>2, <2>1, <2>2 DEF SerialInv
<1>5. ASSUME NEW set \in Change, FreshUpdate(e, set), user[e] \in UserRow,
             user'[e] = Flushed(set, user[e])
      PROVE  SerialInv'
  <2>1. user'[e] # None
    BY <1>5, FlushedColumns, NullIsNoRow
  <2>2. user[e].status = "ACTIVE" => user'[e].status = "ACTIVE"
    BY <1>5 DEF FreshUpdate, SIGNUP_ALLOWED_TRANSITIONS
  <2>3. SessionsAreActive'
    BY <1>1, <2>1, <2>2 DEF SerialInv, SessionsAreActive, AccountInv, TypeOK
  <2>4. PICK x \in Accounts :
          Administers(user[x]) /\ (x = e => Administers(Flushed(set, user[e])))
    BY <1>5 DEF FreshUpdate
  <2>5. AdminRemains'
    BY <1>1, <1>5, <2>4 DEF AdminRemains, Administers, may_login
  <2> QED
    BY <1>2, <2>3, <2>5 DEF SerialInv
<1> QED
  BY <1>1, <1>3, <1>4, <1>5

\* The inductive invariant of requests that do not overlap.
THEOREM SerialAccounts ==
  ASSUME Serial
  PROVE  Spec => []SerialInv
<1>1. Init => SerialInv
  <2> SUFFICES ASSUME Init PROVE SerialInv
    OBVIOUS
  <2> DEFINE first == [status |-> "ACTIVE", is_active |-> "YES", role |-> "ADMIN",
                       employee_no |-> CHOOSE n \in EmployeeNumbers : TRUE]
  <2>1. PICK row \in UserRow : row = first
    BY DEF UserRow, UserStatuses, Roles
  <2>2. row.status = "ACTIVE" /\ row.is_active = "YES" /\ row.role = "ADMIN" /\ row # None
    BY <2>1, NullIsNoRow
  <2>3. user = [e \in Accounts |-> IF e # FirstAdmin THEN None ELSE row]
    BY <2>1 DEF Init
  <2>4. AdminRemains
    BY <2>2, <2>3 DEF AdminRemains, may_login
  <2> QED
    BY <2>4 DEF Init, SerialInv, SessionsAreActive, WorkIsFresh, Busy
<1>2. AccountInv /\ SerialInv /\ [Next]_vars => SerialInv'
  <2> SUFFICES ASSUME AccountInv, SerialInv, [Next]_vars PROVE SerialInv'
    OBVIOUS
  <2>1. ASSUME NEW e \in Accounts, login(e) \/ TokenExpires(e) PROVE SerialInv'
    BY <2>1 DEF login, TokenExpires, may_login, SerialInv, SessionsAreActive, AdminRemains,
                WorkIsFresh, Busy, Fresh, FreshUpdate
  <2>2. CASE UNCHANGED vars
    BY <2>2 DEF vars, SerialInv, SessionsAreActive, AdminRemains, WorkIsFresh, Busy, Fresh,
                FreshUpdate
  <2> QED
    BY <2>1, <2>2, PublicSerial, AdministrationSerial, CommitSerial DEF Next
<1> QED
  BY <1>1, <1>2, InitAccounts, NextAccounts, PTL DEF Spec

\* When requests do not overlap, an administrator who can sign in remains:
\* assert_not_demoting_self, and the status check of login, are enough.
THEOREM AnAdminRemains ==
  ASSUME Serial
  PROVE  Spec => []AdminRemains
<1>1. SerialInv => AdminRemains
  BY DEF SerialInv
<1> QED
  BY <1>1, SerialAccounts, PTL

\* When requests do not overlap, whoever works with a token has an account that
\* is ACTIVE, although the check of a session looks only at is_active (deps.py).
THEOREM SessionsStayActive ==
  ASSUME Serial
  PROVE  Spec => []SessionsOfActiveAccounts
<1>1. SerialInv => SessionsOfActiveAccounts
  BY DEF SerialInv, SessionsAreActive, SessionsOfActiveAccounts
<1> QED
  BY <1>1, SerialAccounts, PTL

\* When requests do not overlap, the user table implements the diagram of the
\* signup design: an account applies, is decided on once and never leaves
\* ACTIVE (SIGNUP_ALLOWED_TRANSITIONS).
THEOREM AccountsImplementTheDiagram ==
  ASSUME Serial
  PROVE  Spec => ImplementsSignup
<1>1. Init => Lifecycle!Init
  <2> SUFFICES ASSUME Init PROVE signupStatus \in [Accounts -> {"NEW", "ACTIVE"}]
    BY DEF Lifecycle!Init
  <2> DEFINE first == [status |-> "ACTIVE", is_active |-> "YES", role |-> "ADMIN",
                       employee_no |-> CHOOSE n \in EmployeeNumbers : TRUE]
  <2>1. user = [e \in Accounts |-> IF e # FirstAdmin THEN None ELSE first]
    BY DEF Init
  <2>2. first.status = "ACTIVE"
    OBVIOUS
  <2> HIDE DEF first
  <2> QED
    BY <2>1, <2>2 DEF signupStatus
<1>2. AccountInv /\ SerialInv /\ [Next]_vars => [Lifecycle!Next]_signupStatus
  <2> SUFFICES ASSUME AccountInv, SerialInv, [Next]_vars
               PROVE  Lifecycle!Next \/ signupStatus' = signupStatus
    OBVIOUS
  <2>1. CASE user' = user
    BY <2>1 DEF signupStatus
  <2>2. ASSUME NEW w \in Workers, CommitInsert(w) \/ CommitUpdate(w) \/ Rollback(w)
        PROVE  Lifecycle!Next \/ signupStatus' = signupStatus
    <3>1. PICK e \in Accounts :
            /\ session' = session /\ \A v \in Workers : work'[v] = None
            /\ \A x \in Accounts : x # e => user'[x] = user[x]
            /\ \/ user' = user
               \/ user[e] = None /\ user'[e] \in UserRow
                    /\ user'[e].status \in {"PENDING", "ACTIVE"}
               \/ \E set \in Change :
                    FreshUpdate(e, set) /\ user[e] \in UserRow
                      /\ user'[e] = Flushed(set, user[e])
      BY <2>2, CommitEffect
    <3>2. /\ signupStatus' = [signupStatus EXCEPT ![e] = signupStatus'[e]]
          /\ signupStatus'[e] = signupStatus[e] => signupStatus' = signupStatus
          /\ signupStatus[e] = IF user[e] = None THEN "NEW" ELSE user[e].status
          /\ signupStatus'[e] = IF user'[e] = None THEN "NEW" ELSE user'[e].status
      BY <3>1 DEF signupStatus
    <3>3. ASSUME NEW from, NEW to, signupStatus[e] = from, signupStatus'[e] = to
          PROVE  Lifecycle!Move(e, from, to)
      BY <3>2, <3>3 DEF Lifecycle!Move
    <3>4. CASE user' = user
      BY <2>1, <3>4
    <3>5. CASE user[e] = None /\ user'[e] \in UserRow /\ user'[e].status \in {"PENDING", "ACTIVE"}
      <4>1. Lifecycle!Move(e, "NEW", "PENDING") \/ Lifecycle!Move(e, "NEW", "ACTIVE")
        BY <3>2, <3>3, <3>5, NullIsNoRow
      <4> QED
        BY <4>1 DEF Lifecycle!Next, Lifecycle!Apply, Lifecycle!Create
    <3>6. ASSUME NEW set \in Change, FreshUpdate(e, set), user[e] \in UserRow,
                 user'[e] = Flushed(set, user[e])
          PROVE  Lifecycle!Next \/ signupStatus' = signupStatus
      <4>1. user[e] # None /\ user'[e] # None
        BY <3>6, FlushedColumns, NullIsNoRow DEF FreshUpdate
      <4>2. signupStatus[e] = user[e].status /\ signupStatus'[e] = user'[e].status
        BY <3>2, <4>1
      <4>3. \/ user'[e].status = user[e].status
            \/ user[e].status = "PENDING" /\ user'[e].status = "ACTIVE"
            \/ user[e].status = "PENDING" /\ user'[e].status = "REJECTED"
            \/ user[e].status = "REJECTED" /\ user'[e].status = "PENDING"
        BY <3>6 DEF FreshUpdate, SIGNUP_ALLOWED_TRANSITIONS
      <4>4. \/ signupStatus' = signupStatus
            \/ Lifecycle!Move(e, "PENDING", "ACTIVE")
            \/ Lifecycle!Move(e, "PENDING", "REJECTED")
            \/ Lifecycle!Move(e, "REJECTED", "PENDING")
        BY <3>2, <3>3, <4>2, <4>3
      <4> QED
        BY <4>4 DEF Lifecycle!Next, Lifecycle!Apply, Lifecycle!Decide
    <3> QED
      BY <3>1, <3>4, <3>5, <3>6
  <2>3. user' = user \/ \E w \in Workers : CommitInsert(w) \/ CommitUpdate(w) \/ Rollback(w)
    <3>1. ASSUME NEW e \in Accounts, login(e) \/ TokenExpires(e) PROVE user' = user
      BY <3>1 DEF login, TokenExpires
    <3>2. ASSUME NEW w, Public(w) PROVE user' = user
      BY <3>2 DEF Public, signup, _resubmit, Begin
    <3>3. ASSUME NEW w, Administration(w) PROVE user' = user
      <4>1. PICK a \in Accounts, e \in Accounts :
              create_user(w, e) \/ approve_user(w, e) \/ reject_user(w, e) \/ update_user(w, a, e)
        BY <3>3 DEF Administration
      <4>2. CASE create_user(w, e) \/ approve_user(w, e)
        BY <4>2 DEF create_user, approve_user, Begin
      <4>3. CASE reject_user(w, e) \/ update_user(w, a, e)
        BY <4>3 DEF reject_user, update_user, Begin
      <4> QED
        BY <4>1, <4>2, <4>3
    <3>4. CASE UNCHANGED vars
      BY <3>4 DEF vars
    <3>5. CASE Next
      BY <3>1, <3>2, <3>3, <3>5 DEF Next
    <3> QED
      BY <3>4, <3>5
  <2> QED
    BY <2>1, <2>2, <2>3
<1> QED
  BY <1>1, <1>2, InitAccounts, NextAccounts, SerialAccounts, PTL
     DEF Spec, ImplementsSignup, Lifecycle!Spec
=============================================================================
