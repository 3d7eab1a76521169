------------------------------ MODULE Accounts -------------------------------
(***************************************************************************)
(* Accounts: signup without a login (services/signup.py), the decision and *)
(* the administration of accounts (services/admin/users.py), login and the *)
(* check of a session (routers/auth.py, deps.py).                          *)
(*                                                                         *)
(* As in Trips, a request reads and decides in one step and writes in a    *)
(* later one.  E-mails are unique and rows are never deleted, so an        *)
(* account is known here by its e-mail.                                    *)
(***************************************************************************)
EXTENDS FiniteSets

CONSTANTS
  Accounts,         \* e-mail addresses
  FirstAdmin,       \* the administrator the database is delivered with
  EmployeeNumbers,
  Workers,          \* concurrently running requests
  Keep,             \* "this column is not in the UPDATE statement"
  None              \* SQL NULL, no row, no request; as an actor: not logged in

ASSUME AccountsAssumption ==
  /\ FirstAdmin \in Accounts
  /\ EmployeeNumbers # {}
  /\ None \notin Accounts \cup EmployeeNumbers
  /\ Keep \notin EmployeeNumbers \cup {None}
  /\ Keep \notin {"PENDING", "ACTIVE", "REJECTED", "NO", "YES", "EMPLOYEE", "ADMIN"}

VARIABLES
  user,     \* user table: e-mail -> row, or None
  session,  \* the accounts for which a token is out that has not expired
  work      \* what each running request is about to write, or None

vars == <<user, session, work>>

UserStatuses == {"PENDING", "ACTIVE", "REJECTED"}

\* EMPLOYEE stands for MANAGER too: only ADMIN opens the administration.
Roles == {"EMPLOYEE", "ADMIN"}

UserRow ==
  [status : UserStatuses, is_active : {"NO", "YES"}, role : Roles,
   employee_no : EmployeeNumbers \cup {None}]

ASSUME NullIsNoRow == None \notin UserRow

\* The SET clause of an UPDATE.
Change ==
  [status : UserStatuses \cup {Keep}, is_active : {"NO", "YES", Keep},
   role : Roles \cup {Keep}, employee_no : EmployeeNumbers \cup {Keep}]

NoChange == [status |-> Keep, is_active |-> Keep, role |-> Keep, employee_no |-> Keep]

Work ==
  [account : Accounts, kind : {"INSERT"}, set : UserRow]
    \cup [account : Accounts, kind : {"UPDATE"}, set : Change]

-----------------------------------------------------------------------------
(* Helpers                                                                 *)

Dirty(loaded, new) == IF new = loaded THEN Keep ELSE new

\* Mutant: the statement writes every column, untouched ones included.
Flushed_unfiltered(set, row) == set

\* Columns not in the statement keep what the row holds now.
Flushed(set, row) == [c \in DOMAIN row |-> IF set[c] = Keep THEN row[c] ELSE set[c]]

\* Mutant: a rejection can be turned into an approval.
SIGNUP_ALLOWED_TRANSITIONS_reverted ==
  {<<"PENDING", "ACTIVE">>, <<"PENDING", "REJECTED">>, <<"REJECTED", "PENDING">>,
   <<"REJECTED", "ACTIVE">>}

SIGNUP_ALLOWED_TRANSITIONS ==
  {<<"PENDING", "ACTIVE">>, <<"PENDING", "REJECTED">>, <<"REJECTED", "PENDING">>}

\* The numbers in use: assert_unique reads them, the unique constraint guards
\* them.
TakenNumbers(accounts) ==
  {user[e].employee_no : e \in {x \in accounts : user[x] # None}} \ {None}

Busy(w) == work[w] # None

\* A token is checked against the row on every request, but only against
\* is_active.
Authenticated(a) == a \in session /\ user[a].is_active = "YES"

AdminUser(a) == Authenticated(a) /\ user[a].role = "ADMIN"

Begin(w, e, kind, set) ==
  /\ ~Busy(w)
  /\ work' = [work EXCEPT ![w] = [account |-> e, kind |-> kind, set |-> set]]
  /\ UNCHANGED <<user, session>>

-----------------------------------------------------------------------------
(* Without a login                                                         *)

signup(w, e) ==
  /\ user[e] = None
  /\ Begin(w, e, "INSERT",
           [status |-> "PENDING", is_active |-> "NO", role |-> "EMPLOYEE", employee_no |-> None])

\* Applying again with the address of a rejected application.
_resubmit(w, e) ==
  /\ user[e] # None
  /\ user[e].status = "REJECTED"
  /\ Begin(w, e, "UPDATE",
           [NoChange EXCEPT !.status = "PENDING",
                            !.is_active = Dirty(user[e].is_active, "NO")])

\* Mutant: the status is not looked at.
may_login_whenOpen(row) == row.is_active = "YES"

may_login(row) == row.status = "ACTIVE" /\ row.is_active = "YES"

\* The password was right.  Reading is all login does.
login(e) ==
  /\ user[e] # None
  /\ may_login(user[e])
  /\ session' = session \cup {e}
  /\ UNCHANGED <<user, work>>

TokenExpires(e) ==
  /\ e \in session
  /\ session' = session \ {e}
  /\ UNCHANGED <<user, work>>

-----------------------------------------------------------------------------
(* Administrators                                                          *)

create_user(w, e) ==
  \E n \in EmployeeNumbers \ TakenNumbers(Accounts), role \in Roles, active \in {"NO", "YES"} :
    /\ user[e] = None
    /\ Begin(w, e, "INSERT",
             [status |-> "ACTIVE", is_active |-> active, role |-> role, employee_no |-> n])

\* Mutant: the number entered by the administrator is not stored.
Approval_withoutNumber(row, n, role) ==
  [status |-> "ACTIVE", is_active |-> Dirty(row.is_active, "YES"),
   role |-> Dirty(row.role, role), employee_no |-> Keep]

Approval(row, n, role) ==
  [status |-> "ACTIVE", is_active |-> Dirty(row.is_active, "YES"),
   role |-> Dirty(row.role, role), employee_no |-> Dirty(row.employee_no, n)]

approve_user(w, e) ==
  \E n \in EmployeeNumbers \ TakenNumbers(Accounts), role \in Roles :
    /\ user[e] # None
    /\ <<user[e].status, "ACTIVE">> \in SIGNUP_ALLOWED_TRANSITIONS
    /\ Begin(w, e, "UPDATE", Approval(user[e], n, role))

reject_user(w, e) ==
  /\ user[e] # None
  /\ <<user[e].status, "REJECTED">> \in SIGNUP_ALLOWED_TRANSITIONS
  /\ Begin(w, e, "UPDATE",
           [NoChange EXCEPT !.status = "REJECTED",
                            !.is_active = Dirty(user[e].is_active, "NO")])

\* Mutant: only the role is protected.
assert_not_demoting_self_roleOnly(a, e, role, active) == a = e => role \in {Keep, "ADMIN"}

\* Nobody takes the administration from themselves.
assert_not_demoting_self(a, e, role, active) ==
  a = e => role \in {Keep, "ADMIN"} /\ active # "NO"

\* A field that is not sent is Keep.
update_user(w, a, e) ==
  \E role \in Roles \cup {Keep}, active \in {"NO", "YES", Keep} :
    /\ user[e] # None
    /\ assert_not_demoting_self(a, e, role, active)
    /\ Begin(w, e, "UPDATE",
             [NoChange EXCEPT !.role = Dirty(user[e].role, role),
                              !.is_active = Dirty(user[e].is_active, active)])

-----------------------------------------------------------------------------
(* The end of a request                                                    *)

Finish(w) ==
  /\ work' = [work EXCEPT ![w] = None]
  /\ UNCHANGED session

CommitInsert(w) ==
  /\ Busy(w)
  /\ work[w].kind = "INSERT"
  /\ user[work[w].account] = None
  /\ work[w].set.employee_no \notin TakenNumbers(Accounts)
  /\ user' = [user EXCEPT ![work[w].account] = work[w].set]
  /\ Finish(w)

CommitUpdate(w) ==
  /\ Busy(w)
  /\ work[w].kind = "UPDATE"
  /\ work[w].set.employee_no \notin TakenNumbers(Accounts \ {work[w].account})
  /\ user' = [user EXCEPT ![work[w].account] = Flushed(work[w].set, @)]
  /\ Finish(w)

Rollback(w) ==
  /\ Busy(w)
  /\ Finish(w)
  /\ UNCHANGED user

Public(w) == \E e \in Accounts : signup(w, e) \/ _resubmit(w, e)

Administration(w) ==
  \E a, e \in Accounts :
    /\ AdminUser(a)
    /\ create_user(w, e) \/ approve_user(w, e) \/ reject_user(w, e) \/ update_user(w, a, e)

Init ==
  /\ user = [e \in Accounts |->
       IF e # FirstAdmin THEN None
       ELSE [status |-> "ACTIVE", is_active |-> "YES", role |-> "ADMIN",
             employee_no |-> CHOOSE n \in EmployeeNumbers : TRUE]]
  /\ session = {}
  /\ work = [w \in Workers |-> None]

Next ==
  \/ \E e \in Accounts : login(e) \/ TokenExpires(e)
  \/ \E w \in Workers :
       Public(w) \/ Administration(w) \/ CommitInsert(w) \/ CommitUpdate(w) \/ Rollback(w)

Spec == Init /\ [][Next]_vars

-----------------------------------------------------------------------------
(* Properties of every interleaving                                        *)

TypeOK ==
  /\ user \in [Accounts -> UserRow \cup {None}]
  /\ session \subseteq Accounts
  /\ work \in [Workers -> Work \cup {None}]

\* The column allows NULL, the service does not: an account that is ACTIVE has
\* its employee number, however approvals, rejections and new applications
\* overlap (approve_user fills it in the statement that makes it ACTIVE).
ActiveAccountsAreComplete ==
  \A e \in Accounts : user[e] # None /\ user[e].status = "ACTIVE" => user[e].employee_no # None

\* Nobody ever got a token before an administrator approved or created the
\* account, although update_user may set is_active on any account: login looks
\* at the status.
SessionsWereApproved == \A e \in session : user[e] # None /\ user[e].employee_no # None

-----------------------------------------------------------------------------
(* Properties when requests do not overlap                                 *)

\* An administrator who can sign in remains: update_user refuses what would leave
\* nobody who can.
AdminRemains == \E e \in Accounts : user[e] # None /\ may_login(user[e]) /\ user[e].role = "ADMIN"

\* deps.py looks only at is_active, and may: whoever works with a token has an
\* account that is ACTIVE.
SessionsOfActiveAccounts == \A e \in session : Authenticated(e) => user[e].status = "ACTIVE"

\* The diagram of the signup design: see SignupLifecycle.
signupStatus == [e \in Accounts |-> IF user[e] = None THEN "NEW" ELSE user[e].status]

Lifecycle == INSTANCE SignupLifecycle WITH status <- signupStatus

ImplementsSignup == Lifecycle!Spec
=============================================================================
