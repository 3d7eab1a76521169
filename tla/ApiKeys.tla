------------------------------ MODULE ApiKeys -------------------------------
(***************************************************************************)
(* API keys (services/api_keys.py), the scope table (services/             *)
(* api_scopes.py) and the two ways into a handler (deps.py): a key, or the *)
(* token of a login session.                                               *)
(*                                                                         *)
(* A request is FOUND once its key and the owner were read, IN once the    *)
(* use of the key is committed, and ends with what its handler commits.    *)
(* Creating and revoking a key read and decide in one step and commit in a *)
(* later one.                                                              *)
(***************************************************************************)
EXTENDS Integers, FiniteSets

CONSTANTS
  Users,
  Admins,           \* the users whose role is ADMIN
  KeyIds,           \* primary keys the table may hand out
  Workers,          \* concurrently running requests
  MAX_ACTIVE_KEYS,
  ScopeChoices,     \* the sets of scopes a client asks for
  Lifetimes,        \* values of expires_in_days
  MaxTime,          \* bound: the clock stops here
  Keep,             \* "this column is not in the UPDATE statement"
  None              \* SQL NULL, no row, no key, no scope, no request

ApiKeyScope ==
  {"trips:read", "trips:write", "expenses:read", "expenses:write", "cards:read", "admin"}

ASSUME ApiKeysAssumption ==
  /\ Admins \subseteq Users
  /\ MAX_ACTIVE_KEYS \in Nat \ {0}
  /\ IsFiniteSet(KeyIds) /\ IsFiniteSet(Workers)
  /\ ScopeChoices \subseteq SUBSET ApiKeyScope
  /\ Lifetimes \subseteq (Nat \ {0})
  /\ MaxTime \in Nat
  /\ None \notin Users \cup KeyIds \cup Nat \cup ApiKeyScope
  /\ Keep \notin {"NULL", "SET"}

VARIABLES
  api_key,  \* api_key table: id -> row, or None
  active,   \* user.is_active
  now,      \* the clock, in days
  written,  \* the kind of table that the last commit of a handler changed
  work      \* what each running request has read and is about to write

vars == <<api_key, active, now, written, work>>

Cell == {"NULL", "SET"}

KeyRow ==
  [owner : Users, scopes : SUBSET ApiKeyScope, expires_at : Int \cup {None},
   revoked_at : Cell, last_used_at : Cell]

ASSUME NullIsNoKey == None \notin KeyRow

-----------------------------------------------------------------------------
(* Scopes                                                                  *)

\* The routes, by the kind of table they serve.  "reference" is codes, centers,
\* the scope catalogue and the profile, "own" is one's notifications.
Resources ==
  {"reference", "own", "api_keys", "trips", "expenses", "cards", "admin", "passwords"}

Readable == Resources \ {"passwords"}

Writable == Resources \ {"reference", "cards"}

Routes == {"GET"} \X Readable \cup {"POST"} \X Writable

\* Mutant: a write of trips is declared as a read.
required_scope_for_reading(route) ==
  CASE route[2] = "trips"                  -> "trips:read"
    [] route = <<"GET", "expenses">>       -> "expenses:read"
    [] route = <<"POST", "expenses">>      -> "expenses:write"
    [] route[2] = "cards"                  -> "cards:read"
    [] route[2] \in {"admin", "passwords"} -> "admin"
    [] OTHER                               -> None

\* SCOPE_REQUIREMENTS, by kind of route.
required_scope_for(route) ==
  CASE route = <<"GET", "trips">>          -> "trips:read"
    [] route = <<"POST", "trips">>         -> "trips:write"
    [] route = <<"GET", "expenses">>       -> "expenses:read"
    [] route = <<"POST", "expenses">>      -> "expenses:write"
    [] route[2] = "cards"                  -> "cards:read"
    [] route[2] \in {"admin", "passwords"} -> "admin"
    [] OTHER                               -> None

-----------------------------------------------------------------------------
(* Helpers                                                                 *)

\* A key that is revoked and expired is REVOKED.
key_state(row) ==
  IF row.revoked_at = "SET" THEN "REVOKED"
  ELSE IF row.expires_at # None /\ row.expires_at <= now THEN "EXPIRED"
  ELSE "ACTIVE"

\* Mutant: a key without an expiry is not counted (NULL > now is not true).
CountsAsActive_dated(row) ==
  row.revoked_at = "NULL" /\ row.expires_at # None /\ row.expires_at > now

\* The WHERE clause of the count in create_key.
CountsAsActive(row) ==
  row.revoked_at = "NULL" /\ (row.expires_at = None \/ row.expires_at > now)

KeysOf(u) == {k \in KeyIds : api_key[k] # None /\ api_key[k].owner = u}

\* Mutant: the whole row is written back as it was read.
KeyUse_wholeRow(row) == [revoked_at |-> row.revoked_at, last_used_at |-> "SET"]

\* The statement of an authentication: the one attribute it assigns.
KeyUse(row) == [revoked_at |-> Keep, last_used_at |-> "SET"]

Revocation == [revoked_at |-> "SET", last_used_at |-> Keep]

\* Mutant: the statement writes every column, untouched ones included.
Column_unfiltered(set, value) == set

Column(set, value) == IF set = Keep THEN value ELSE set

\* Columns not in the statement keep what the row holds now.
Flushed(set, row) ==
  [row EXCEPT !.revoked_at = Column(set.revoked_at, @),
              !.last_used_at = Column(set.last_used_at, @)]

Idle(w) == work[w] = None

At(w, stage) == ~Idle(w) /\ work[w].stage = stage

\* key: what authenticated the request, None for a token.  target and set: the
\* row the request is about to write and its columns.
Request(stage, account, key, target, set) ==
  [stage |-> stage, account |-> account, key |-> key, target |-> target, set |-> set]

Move(w, request) == work' = [work EXCEPT ![w] = request]

-----------------------------------------------------------------------------
(* Authentication                                                          *)

\* The key row and then its owner are read.
authenticate_key(w, k) ==
  /\ Idle(w)
  /\ api_key[k] # None
  /\ key_state(api_key[k]) = "ACTIVE"
  /\ active[api_key[k].owner]
  /\ Move(w, Request("FOUND", api_key[k].owner, k, k, KeyUse(api_key[k])))
  /\ UNCHANGED <<api_key, active, now, written>>

\* Mutant: the use is left to the transaction of the handler, which may fail.
get_principal_uncommitted(w) ==
  /\ At(w, "FOUND")
  /\ Move(w, Request("IN", work[w].account, work[w].key, None, None))
  /\ UNCHANGED <<api_key, active, now, written>>

\* The use is committed before the handler starts.
get_principal(w) ==
  /\ At(w, "FOUND")
  /\ api_key' = [api_key EXCEPT ![work[w].target] = Flushed(work[w].set, @)]
  /\ Move(w, Request("IN", work[w].account, work[w].key, None, None))
  /\ UNCHANGED <<active, now, written>>

\* With both headers the key is the one that counts, so a request has a key or
\* a token.
_authenticate_jwt(w, u) ==
  /\ Idle(w)
  /\ active[u]
  /\ Move(w, Request("IN", u, None, None, None))
  /\ UNCHANGED <<api_key, active, now, written>>

\* Routes without a declared scope are open to every key.
_enforce_scope(w, route) ==
  LET required == required_scope_for(route) IN
  work[w].key # None /\ required # None => required \in api_key[work[w].key].scopes

require_role(w, route) == route[2] \in {"admin", "passwords"} => work[w].account \in Admins

\* Keys and passwords are managed in a login session only.
get_jwt_principal(w, route) ==
  route[2] \in {"api_keys", "passwords"} => work[w].key = None

Admitted(w, route) ==
  /\ At(w, "IN")
  /\ _enforce_scope(w, route)
  /\ require_role(w, route)
  /\ get_jwt_principal(w, route)

-----------------------------------------------------------------------------
(* Handlers                                                                *)

\* A handler of another module: what it changes is of one kind.
Handle(w) ==
  \E r \in Writable \ {"api_keys"} :
    /\ Admitted(w, <<"POST", r>>)
    /\ written' = r
    /\ Move(w, None)
    /\ UNCHANGED <<api_key, active, now>>

create_key(w) ==
  \E scopes \in ScopeChoices \ {{}}, days \in Lifetimes \cup {None} :
    /\ Admitted(w, <<"POST", "api_keys">>)
    /\ Cardinality({k \in KeysOf(work[w].account) : CountsAsActive(api_key[k])})
         < MAX_ACTIVE_KEYS
    /\ Move(w, Request("CREATE", work[w].account, work[w].key, None,
         [owner |-> work[w].account, scopes |-> scopes,
          expires_at |-> IF days = None THEN None ELSE now + days,
          revoked_at |-> "NULL", last_used_at |-> "NULL"]))
    /\ UNCHANGED <<api_key, active, now, written>>

CommitCreate(w) ==
  \E k \in KeyIds :
    /\ At(w, "CREATE")
    /\ api_key[k] = None
    /\ api_key' = [api_key EXCEPT ![k] = work[w].set]
    /\ written' = "api_keys"
    /\ Move(w, None)
    /\ UNCHANGED <<active, now>>

\* One's own key, once.
revoke_key(w) ==
  \E k \in KeyIds :
    /\ Admitted(w, <<"POST", "api_keys">>)
    /\ k \in KeysOf(work[w].account)
    /\ api_key[k].revoked_at = "NULL"
    /\ Move(w, Request("REVOKE", work[w].account, work[w].key, k, Revocation))
    /\ UNCHANGED <<api_key, active, now, written>>

CommitRevoke(w) ==
  /\ At(w, "REVOKE")
  /\ api_key' = [api_key EXCEPT ![work[w].target] = Flushed(work[w].set, @)]
  /\ written' = "api_keys"
  /\ Move(w, None)
  /\ UNCHANGED <<active, now>>

\* A read, a refusal or an error: what is not committed is gone.
Rollback(w) ==
  /\ ~Idle(w)
  /\ Move(w, None)
  /\ UNCHANGED <<api_key, active, now, written>>

\* An administrator suspends or restores an account.
update_user(u) ==
  /\ active' = [active EXCEPT ![u] = ~@]
  /\ UNCHANGED <<api_key, now, written, work>>

DayPasses ==
  /\ now < MaxTime
  /\ now' = now + 1
  /\ UNCHANGED <<api_key, active, written, work>>

Init ==
  /\ api_key = [k \in KeyIds |-> None]
  /\ active = [u \in Users |-> TRUE]
  /\ now = 0
  /\ written = "reference"
  /\ work = [w \in Workers |-> None]

Next ==
  \/ \E w \in Workers :
       \/ \E k \in KeyIds : authenticate_key(w, k)
       \/ \E u \in Users : _authenticate_jwt(w, u)
       \/ get_principal(w)
       \/ Handle(w)
       \/ create_key(w)
       \/ CommitCreate(w)
       \/ revoke_key(w)
       \/ CommitRevoke(w)
       \/ Rollback(w)
  \/ \E u \in Users : update_user(u)
  \/ DayPasses

Spec == Init /\ [][Next]_vars

-----------------------------------------------------------------------------
(* Properties of every interleaving                                        *)

TypeOK ==
  /\ api_key \in [KeyIds -> KeyRow \cup {None}]
  /\ active \in [Users -> BOOLEAN]
  /\ now \in 0..MaxTime
  /\ written \in Resources
  /\ \A w \in Workers : Idle(w) \/ /\ work[w].stage \in {"FOUND", "IN", "CREATE", "REVOKE"}
                                   /\ work[w].account \in Users
                                   /\ work[w].key \in KeyIds \cup {None}

ActiveKeys(u) == {k \in KeysOf(u) : key_state(api_key[k]) = "ACTIVE"}

\* create_key counts before it inserts, so requests that overlap pass the limit
\* together, but never by more than the other requests that run: with one
\* request at a time nobody has more than MAX_ACTIVE_KEYS keys that open
\* anything.
ActiveKeysAreLimited ==
  \A u \in Users : Cardinality(ActiveKeys(u)) < MAX_ACTIVE_KEYS + Cardinality(Workers)

\* A revocation is final, and so is the record of a use, although the
\* authentications that read the key before the revocation write to the same row
\* after it.  The rest of a key never changes: expiry and scopes are what they
\* were when it was issued.
RevokedForGood ==
  [][\A k \in KeyIds : api_key[k] # None =>
       /\ api_key'[k] # None
       /\ \A c \in {"owner", "scopes", "expires_at"} : api_key'[k][c] = api_key[k][c]
       /\ \A c \in {"revoked_at", "last_used_at"} :
            api_key[k][c] = "SET" => api_key'[k][c] = "SET"]_vars

\* deps.py: the use of a key stays on record whatever becomes of the request.
UsesAreRecorded ==
  \A w \in Workers :
    ~Idle(w) /\ ~At(w, "FOUND") /\ work[w].key # None
      => api_key[work[w].key].last_used_at = "SET"

\* What a holder of these scopes may change.
MayChange(scopes) ==
  {"own"} \cup {r \in {"trips", "expenses", "admin"} :
                 \/ r = "trips" /\ "trips:write" \in scopes
                 \/ r = "expenses" /\ "expenses:write" \in scopes
                 \/ r = "admin" /\ "admin" \in scopes}

\* A key changes only what its scopes name: a read scope changes nothing, and no
\* scope reaches keys or passwords, through which a key would get more than it
\* was issued for.  The scope table declares the routes, the routers implement
\* them; this is the agreement of the two.
KeysKeepToTheirScopes ==
  [][\A w \in Workers :
       ~Idle(w) /\ ~At(w, "FOUND") /\ work[w].key # None /\ work'[w] # work[w] =>
         /\ api_key' = api_key
         /\ written' # written => written' \in MayChange(api_key[work[w].key].scopes)]_vars
=============================================================================
