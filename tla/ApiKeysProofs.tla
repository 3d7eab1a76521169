---------------------------- MODULE ApiKeysProofs ----------------------------
(***************************************************************************)
(* Theorems about ApiKeys, for every set of users, keys, scopes and        *)
(* requests and for every interleaving of the requests.                    *)
(***************************************************************************)
EXTENDS ApiKeys, FiniteSetTheorems, TLAPS

USE ApiKeysAssumption

-----------------------------------------------------------------------------
(* The inductive invariant                                                 *)

\* The statement of an authentication, or of a revocation.
Statement == [revoked_at : {Keep, "SET"}, last_used_at : {Keep, "SET"}]

\* What a running request holds: a key that exists, whose use is on record once
\* the request is past the authentication; and what it is about to write, which
\* only a request with a token is.
RequestIsSound(w) ==
  /\ work[w].stage \in {"FOUND", "IN", "CREATE", "REVOKE"}
  /\ work[w].account \in Users
  /\ work[w].key \in KeyIds \cup {None}
  /\ work[w].key # None => api_key[work[w].key] # None
  /\ work[w].stage = "FOUND" =>
       /\ work[w].key \in KeyIds
       /\ work[w].target = work[w].key
       /\ work[w].set = [revoked_at |-> Keep, last_used_at |-> "SET"]
  /\ work[w].stage # "FOUND" /\ work[w].key # None =>
       api_key[work[w].key].last_used_at = "SET"
  /\ work[w].stage = "CREATE" =>
       /\ work[w].key = None
       /\ work[w].set \in KeyRow
       /\ work[w].set.owner = work[w].account
  /\ work[w].stage = "REVOKE" =>
       /\ work[w].key = None
       /\ work[w].target \in KeyIds
       /\ api_key[work[w].target] # None
       /\ work[w].set = Revocation

RequestsAreSound == \A w \in Workers : ~Idle(w) => RequestIsSound(w)

\* The requests that have passed the count and are about to insert a key.
Creating(u) == {w \in Workers : At(w, "CREATE") /\ work[w].account = u}

\* A key that is about to be inserted occupies its place already.
PlacesAreLimited ==
  \A u \in Users :
    Cardinality(ActiveKeys(u)) + Cardinality(Creating(u))
      < MAX_ACTIVE_KEYS + Cardinality(Workers)

KeyInv == TypeOK /\ DOMAIN work = Workers /\ RequestsAreSound /\ PlacesAreLimited

-----------------------------------------------------------------------------
(* Helpers                                                                 *)

\* An UPDATE leaves a row whose cells are set if they were or are set now; owner,
\* scopes and expiry are what they were.
LEMMA FlushedRow ==
  ASSUME NEW set \in Statement, NEW row \in KeyRow
  PROVE  /\ Flushed(set, row) \in KeyRow
         /\ \A c \in {"owner", "scopes", "expires_at"} : Flushed(set, row)[c] = row[c]
         /\ Flushed(set, row).revoked_at = IF set.revoked_at = Keep THEN row.revoked_at ELSE "SET"
         /\ Flushed(set, row).last_used_at
              = IF set.last_used_at = Keep THEN row.last_used_at ELSE "SET"
  BY DEF Flushed, Column, Statement, KeyRow, Cell

\* The two statements of the service are of this kind.
LEMMA StatementTypes ==
  /\ Revocation \in Statement
  /\ [revoked_at |-> Keep, last_used_at |-> "SET"] \in Statement
  BY DEF Revocation, Statement

\* A finite set without one of its elements.
LEMMA OneFewer ==
  ASSUME NEW S, IsFiniteSet(S), NEW x \in S
  PROVE  Cardinality(S \ {x}) = Cardinality(S) - 1
  BY FS_RemoveElement

\* Active keys and requests can be counted.
LEMMA Countable ==
  ASSUME NEW u \in Users
  PROVE  /\ IsFiniteSet(ActiveKeys(u)) /\ Cardinality(ActiveKeys(u)) \in Nat
         /\ IsFiniteSet(Creating(u)) /\ Cardinality(Creating(u)) \in Nat
         /\ Cardinality(Workers) \in Nat
<1>1. ActiveKeys(u) \in SUBSET KeyIds /\ Creating(u) \in SUBSET Workers
  BY DEF ActiveKeys, KeysOf, Creating
<1> QED
  BY <1>1, FS_Subset, FS_CardinalityType

\* Places stay limited when no key becomes active and no request starts to create.
LEMMA FewerPlaces ==
  ASSUME PlacesAreLimited,
         \A u \in Users : ActiveKeys(u)' \subseteq ActiveKeys(u),
         \A u \in Users : Creating(u)' \subseteq Creating(u)
  PROVE  PlacesAreLimited'
<1> SUFFICES ASSUME NEW u \in Users
             PROVE  Cardinality(ActiveKeys(u)') + Cardinality(Creating(u)')
                      < MAX_ACTIVE_KEYS + Cardinality(Workers)
  BY DEF PlacesAreLimited
<1>1. IsFiniteSet(ActiveKeys(u)') /\ Cardinality(ActiveKeys(u)') <= Cardinality(ActiveKeys(u))
  BY Countable, FS_Subset
<1>2. IsFiniteSet(Creating(u)') /\ Cardinality(Creating(u)') <= Cardinality(Creating(u))
  BY Countable, FS_Subset
<1>3. Cardinality(ActiveKeys(u)') \in Nat /\ Cardinality(Creating(u)') \in Nat
  BY <1>1, <1>2, FS_CardinalityType
<1>4. Cardinality(ActiveKeys(u)) + Cardinality(Creating(u))
        < MAX_ACTIVE_KEYS + Cardinality(Workers)
  BY DEF PlacesAreLimited
<1> QED
  BY <1>1, <1>2, <1>3, <1>4, Countable

\* A key that was not revoked or reissued is active only if it was before.
LEMMA NoNewActive ==
  ASSUME TypeOK, now' >= now, now' \in Nat,
         \A k \in KeyIds : api_key'[k] # None =>
           /\ api_key[k] # None
           /\ \A c \in {"owner", "expires_at"} : api_key'[k][c] = api_key[k][c]
           /\ api_key[k].revoked_at = "SET" => api_key'[k].revoked_at = "SET"
  PROVE  \A u \in Users : ActiveKeys(u)' \subseteq ActiveKeys(u)
<1> SUFFICES ASSUME NEW u \in Users, NEW k \in KeyIds, k \in ActiveKeys(u)'
             PROVE  k \in ActiveKeys(u)
  BY DEF ActiveKeys, KeysOf
<1>1. api_key'[k] # None /\ api_key'[k].owner = u /\ key_state(api_key[k])' = "ACTIVE"
  BY DEF ActiveKeys, KeysOf
<1>2. api_key[k] \in KeyRow
  BY <1>1 DEF TypeOK
<1>3. api_key[k].owner = u /\ api_key'[k].expires_at = api_key[k].expires_at
  BY <1>1
<1>4. api_key[k].revoked_at # "SET"
  BY <1>1 DEF key_state
<1>5. ~(api_key[k].expires_at # None /\ api_key[k].expires_at <= now)
  BY <1>1, <1>2, <1>3 DEF key_state, KeyRow, TypeOK
<1> QED
  BY <1>2, <1>3, <1>4, <1>5 DEF ActiveKeys, KeysOf, key_state

-----------------------------------------------------------------------------
(* What a step may do to the keys and to the requests                      *)

\* RevokedForGood, of one step.
KeysSurvive ==
  \A k \in KeyIds : api_key[k] # None =>
    /\ api_key'[k] # None
    /\ \A c \in {"owner", "scopes", "expires_at"} : api_key'[k][c] = api_key[k][c]
    /\ \A c \in {"revoked_at", "last_used_at"} :
         api_key[k][c] = "SET" => api_key'[k][c] = "SET"

KeysTyped == api_key' \in [KeyIds -> KeyRow \cup {None}]

\* A step that does not write the table leaves every key.
LEMMA UntouchedKeys ==
  ASSUME TypeOK, UNCHANGED api_key
  PROVE  KeysSurvive /\ KeysTyped
  BY DEF KeysSurvive, KeysTyped, TypeOK

\* A committed UPDATE of a key row that exists keeps every key, and the cell it
\* assigns is set.
LEMMA UpdatedKeys ==
  ASSUME TypeOK, NEW t \in KeyIds, api_key[t] # None, NEW set \in Statement,
         api_key' = [api_key EXCEPT ![t] = Flushed(set, @)]
  PROVE  /\ KeysSurvive /\ KeysTyped
         /\ \A k \in KeyIds : api_key'[k] # None => api_key[k] # None
         /\ set.last_used_at = "SET" => api_key'[t].last_used_at = "SET"
<1>1. api_key \in [KeyIds -> KeyRow \cup {None}] /\ api_key[t] \in KeyRow
  BY DEF TypeOK
<1>2. api_key'[t] = Flushed(set, api_key[t]) /\ \A k \in KeyIds \ {t} : api_key'[k] = api_key[k]
  BY <1>1
<1>3. Keep # "SET"
  OBVIOUS
<1>4. /\ api_key'[t] \in KeyRow /\ api_key'[t] # None
      /\ \A c \in {"owner", "scopes", "expires_at"} : api_key'[t][c] = api_key[t][c]
  BY <1>1, <1>2, FlushedRow, NullIsNoKey
<1>5. /\ api_key'[t].revoked_at = IF set.revoked_at = Keep THEN api_key[t].revoked_at ELSE "SET"
      /\ api_key'[t].last_used_at
           = IF set.last_used_at = Keep THEN api_key[t].last_used_at ELSE "SET"
  BY <1>1, <1>2, FlushedRow
<1>6. KeysTyped
  BY <1>1, <1>4 DEF KeysTyped
<1>7. KeysSurvive
  BY <1>2, <1>4, <1>5 DEF KeysSurvive
<1> QED
  BY <1>2, <1>3, <1>5, <1>6, <1>7

\* A request keeps what it holds while others run.
LEMMA OthersStaySound ==
  ASSUME KeyInv, KeysSurvive, NEW v \in Workers, ~Idle(v), work'[v] = work[v]
  PROVE  RequestIsSound(v)'
<1>1. RequestIsSound(v)
  BY DEF KeyInv, RequestsAreSound
<1>2. \A k \in KeyIds : api_key[k] # None =>
        /\ api_key'[k] # None
        /\ api_key[k].last_used_at = "SET" => api_key'[k].last_used_at = "SET"
  BY DEF KeysSurvive
<1> QED
  BY <1>1, <1>2 DEF RequestIsSound

\* A step of one request keeps all but the limit if what it moves to is sound.
LEMMA MoveKeeps ==
  ASSUME KeyInv, NEW w \in Workers, NEW r, Move(w, r), KeysSurvive, KeysTyped,
         r # None => RequestIsSound(w)',
         UNCHANGED <<active, now>>, written' \in Resources
  PROVE  TypeOK' /\ (DOMAIN work = Workers)' /\ RequestsAreSound'
<1>1. /\ DOMAIN work' = Workers /\ work'[w] = r
      /\ \A v \in Workers : v # w => work'[v] = work[v]
  BY DEF Move, KeyInv
<1>2. ASSUME NEW v \in Workers, ~Idle(v)' PROVE RequestIsSound(v)'
  BY <1>1, <1>2, OthersStaySound DEF Idle
<1>3. RequestsAreSound'
  BY <1>2 DEF RequestsAreSound
<1>4. TypeOK'
  BY <1>3 DEF KeyInv, TypeOK, KeysTyped, RequestsAreSound, RequestIsSound
<1> QED
  BY <1>1, <1>3, <1>4

\* A request that moves anywhere but to the insertion takes no place.
LEMMA NoNewCreating ==
  ASSUME KeyInv, NEW w \in Workers, NEW r, Move(w, r), r # None => r.stage # "CREATE"
  PROVE  \A u \in Users : Creating(u)' \subseteq Creating(u)
<1>1. work'[w] = r /\ \A v \in Workers : v # w => work'[v] = work[v]
  BY DEF Move, KeyInv
<1> QED
  BY <1>1 DEF Creating, At, Idle

\* Steps that create no key and begin no insertion.
LEMMA PlainStepKeeps ==
  ASSUME KeyInv, NEW w \in Workers, NEW r, Move(w, r), KeysSurvive, KeysTyped,
         \A k \in KeyIds : api_key'[k] # None => api_key[k] # None,
         r # None => r.stage # "CREATE" /\ RequestIsSound(w)',
         UNCHANGED <<active, now>>, written' \in Resources
  PROVE  KeyInv'
<1>1. \A u \in Users : ActiveKeys(u)' \subseteq ActiveKeys(u)
  BY NoNewActive DEF KeyInv, TypeOK, KeysSurvive
<1>2. PlacesAreLimited'
  BY <1>1, NoNewCreating, FewerPlaces DEF KeyInv
<1> QED
  BY <1>2, MoveKeeps DEF KeyInv

-----------------------------------------------------------------------------
(* The steps                                                               *)

\* Authentication: of a key, of a token, and the commit of the use of a key.
LEMMA AuthenticationKeeps ==
  ASSUME KeyInv, NEW w \in Workers,
         \/ \E k \in KeyIds : authenticate_key(w, k)
         \/ \E u \in Users : _authenticate_jwt(w, u)
         \/ get_principal(w)
  PROVE  KeyInv' /\ KeysSurvive
<1> USE DEF Request
<1>0. TypeOK /\ DOMAIN work = Workers
  BY DEF KeyInv
<1>1. CASE \E k \in KeyIds : authenticate_key(w, k)
  <2>1. PICK k \in KeyIds : authenticate_key(w, k)
    BY <1>1
  <2>2. PICK r : r = Request("FOUND", api_key[k].owner, k, k, KeyUse(api_key[k]))
    OBVIOUS
  <2>3. Move(w, r) /\ api_key[k] # None /\ UNCHANGED <<api_key, active, now, written>>
    BY <2>1, <2>2 DEF authenticate_key
  <2>4. work'[w] = r
    BY <1>0, <2>3 DEF Move
  <2>5. r.stage # "CREATE" /\ RequestIsSound(w)'
    BY <1>0, <2>2, <2>3, <2>4 DEF RequestIsSound, KeyUse, TypeOK, KeyRow
  <2> QED
    BY <1>0, <2>3, <2>5, UntouchedKeys, PlainStepKeeps DEF TypeOK
<1>2. CASE \E u \in Users : _authenticate_jwt(w, u)
  <2>1. PICK u \in Users : _authenticate_jwt(w, u)
    BY <1>2
  <2>2. PICK r : r = Request("IN", u, None, None, None)
    OBVIOUS
  <2>3. Move(w, r) /\ UNCHANGED <<api_key, active, now, written>>
    BY <2>1, <2>2 DEF _authenticate_jwt
  <2>4. work'[w] = r
    BY <1>0, <2>3 DEF Move
  <2>5. r.stage # "CREATE" /\ RequestIsSound(w)'
    BY <2>2, <2>4 DEF RequestIsSound
  <2> QED
    BY <1>0, <2>3, <2>5, UntouchedKeys, PlainStepKeeps DEF TypeOK
<1>3. CASE get_principal(w)
  <2>1. RequestIsSound(w) /\ work[w].stage = "FOUND"
    BY <1>3 DEF get_principal, At, KeyInv, RequestsAreSound
  <2>2. PICK t \in KeyIds : t = work[w].target /\ t = work[w].key /\ api_key[t] # None
    BY <2>1 DEF RequestIsSound
  <2>3. PICK set \in Statement : set = work[w].set /\ set.last_used_at = "SET"
    BY <2>1, StatementTypes DEF RequestIsSound
  <2>4. PICK r : r = Request("IN", work[w].account, work[w].key, None, None)
    OBVIOUS
  <2>5. /\ Move(w, r) /\ UNCHANGED <<active, now, written>>
        /\ api_key' = [api_key EXCEPT ![t] = Flushed(set, @)]
    BY <1>3, <2>2, <2>3, <2>4 DEF get_principal
  <2>6. /\ KeysSurvive /\ KeysTyped
        /\ \A k \in KeyIds : api_key'[k] # None => api_key[k] # None
        /\ api_key'[t].last_used_at = "SET"
    BY <1>0, <2>2, <2>3, <2>5, UpdatedKeys
  <2>7. work'[w] = r
    BY <1>0, <2>5 DEF Move
  <2>8. api_key'[t] # None
    BY <2>2, <2>6 DEF KeysSurvive
  <2>9. r.stage # "CREATE" /\ RequestIsSound(w)'
    BY <2>1, <2>2, <2>4, <2>6, <2>7, <2>8 DEF RequestIsSound
  <2> QED
    BY <1>0, <2>5, <2>6, <2>9, PlainStepKeeps DEF TypeOK
<1> QED
  BY <1>1, <1>2, <1>3

\* Requests that end without a key of their own to write, and revocations.
LEMMA HandlerKeeps ==
  ASSUME KeyInv, NEW w \in Workers,
         Handle(w) \/ Rollback(w) \/ revoke_key(w) \/ CommitRevoke(w)
  PROVE  KeyInv' /\ KeysSurvive
<1>0. TypeOK /\ DOMAIN work = Workers
  BY DEF KeyInv
<1>1. CASE Handle(w)
  BY <1>0, <1>1, UntouchedKeys, PlainStepKeeps DEF Handle, Writable, TypeOK
<1>2. CASE Rollback(w)
  BY <1>0, <1>2, UntouchedKeys, PlainStepKeeps DEF Rollback, TypeOK
<1>3. CASE revoke_key(w)
  <2>1. PICK k \in KeyIds :
          /\ Admitted(w, <<"POST", "api_keys">>) /\ k \in KeysOf(work[w].account)
          /\ Move(w, Request("REVOKE", work[w].account, work[w].key, k, Revocation))
          /\ UNCHANGED <<api_key, active, now, written>>
    BY <1>3 DEF revoke_key
  <2>2. PICK r : r = Request("REVOKE", work[w].account, work[w].key, k, Revocation)
    OBVIOUS
  <2>3. RequestIsSound(w) /\ work[w].key = None /\ api_key[k] # None
    BY <2>1 DEF Admitted, At, get_jwt_principal, KeysOf, KeyInv, RequestsAreSound
  <2>4. work'[w] = r
    BY <1>0, <2>1, <2>2 DEF Move
  <2>5. r.stage # "CREATE" /\ RequestIsSound(w)'
    BY <2>1, <2>2, <2>3, <2>4 DEF RequestIsSound, Request
  <2> QED
    BY <1>0, <2>1, <2>2, <2>5, UntouchedKeys, PlainStepKeeps DEF TypeOK
<1>4. CASE CommitRevoke(w)
  <2>1. RequestIsSound(w) /\ work[w].stage = "REVOKE"
    BY <1>4 DEF CommitRevoke, At, KeyInv, RequestsAreSound
  <2>2. PICK t \in KeyIds : t = work[w].target /\ api_key[t] # None
    BY <2>1 DEF RequestIsSound
  <2>3. /\ Move(w, None) /\ UNCHANGED <<active, now>> /\ written' \in Resources
        /\ api_key' = [api_key EXCEPT ![t] = Flushed(Revocation, @)]
    BY <1>4, <2>1, <2>2 DEF CommitRevoke, RequestIsSound, Resources
  <2>4. /\ KeysSurvive /\ KeysTyped
        /\ \A k \in KeyIds : api_key'[k] # None => api_key[k] # None
    BY <1>0, <2>2, <2>3, StatementTypes, UpdatedKeys
  <2> QED
    BY <2>3, <2>4, PlainStepKeeps
<1> QED
  BY <1>1, <1>2, <1>3, <1>4

\* The count of create_key: what the WHERE clause counts are the active keys.
LEMMA CountedAreActive ==
  ASSUME TypeOK, NEW u \in Users
  PROVE  {k \in KeysOf(u) : CountsAsActive(api_key[k])} = ActiveKeys(u)
<1> SUFFICES ASSUME NEW k \in KeyIds, api_key[k] # None
             PROVE  CountsAsActive(api_key[k]) <=> key_state(api_key[k]) = "ACTIVE"
  BY DEF ActiveKeys, KeysOf
<1>1. api_key[k] \in KeyRow /\ now \in Nat
  BY DEF TypeOK
<1> QED
  BY <1>1 DEF CountsAsActive, key_state, KeyRow, Cell

\* The request that has counted takes a place, and there is one: the count was
\* below the maximum, and all other requests together take one each.
LEMMA CreateKeeps ==
  ASSUME KeyInv, NEW w \in Workers, create_key(w)
  PROVE  KeyInv' /\ KeysSurvive
<1>0. TypeOK /\ DOMAIN work = Workers
  BY DEF KeyInv
<1>1. PICK scopes \in ScopeChoices \ {{}}, days \in Lifetimes \cup {None} :
        /\ Admitted(w, <<"POST", "api_keys">>)
        /\ Cardinality({k \in KeysOf(work[w].account) : CountsAsActive(api_key[k])})
             < MAX_ACTIVE_KEYS
        /\ Move(w, Request("CREATE", work[w].account, work[w].key, None,
             [owner |-> work[w].account, scopes |-> scopes,
              expires_at |-> IF days = None THEN None ELSE now + days,
              revoked_at |-> "NULL", last_used_at |-> "NULL"]))
        /\ UNCHANGED <<api_key, active, now, written>>
  BY DEF create_key
<1>2. RequestIsSound(w) /\ work[w].key = None /\ work[w].account \in Users
  BY <1>1 DEF Admitted, At, get_jwt_principal, KeyInv, RequestsAreSound, RequestIsSound
<1>3. PICK row : row = [owner |-> work[w].account, scopes |-> scopes,
                       expires_at |-> IF days = None THEN None ELSE now + days,
                       revoked_at |-> "NULL", last_used_at |-> "NULL"]
  OBVIOUS
<1>4. row \in KeyRow /\ row.owner = work[w].account
  BY <1>0, <1>2, <1>3 DEF TypeOK, KeyRow, Cell
<1>5. PICK r : r = Request("CREATE", work[w].account, work[w].key, None, row)
  OBVIOUS
<1>6. Move(w, r)
  BY <1>1, <1>3, <1>5
<1>7. work'[w] = r /\ \A v \in Workers : v # w => work'[v] = work[v]
  BY <1>0, <1>6 DEF Move
<1>8. RequestIsSound(w)'
  BY <1>1, <1>2, <1>4, <1>5, <1>7 DEF RequestIsSound, Request
<1>9. KeysSurvive /\ KeysTyped
  BY <1>0, <1>1, UntouchedKeys
<1>10. TypeOK' /\ (DOMAIN work = Workers)' /\ RequestsAreSound'
  BY <1>0, <1>1, <1>6, <1>8, <1>9, MoveKeeps DEF TypeOK
<1>11. PlacesAreLimited'
  <2> SUFFICES ASSUME NEW u \in Users
               PROVE  Cardinality(ActiveKeys(u)') + Cardinality(Creating(u)')
                        < MAX_ACTIVE_KEYS + Cardinality(Workers)
    BY DEF PlacesAreLimited
  <2>1. ActiveKeys(u)' = ActiveKeys(u)
    BY <1>1 DEF ActiveKeys, KeysOf, key_state
  <2>2. CASE u = work[w].account
    <3>1. Cardinality(ActiveKeys(u)) < MAX_ACTIVE_KEYS
      BY <1>0, <1>1, <2>2, CountedAreActive
    <3>2. Creating(u)' \subseteq Workers
      BY DEF Creating
    <3>3. /\ Cardinality(Creating(u)') <= Cardinality(Workers)
          /\ Cardinality(Creating(u)') \in Nat /\ Cardinality(Workers) \in Nat
      BY <3>2, FS_Subset, FS_CardinalityType
    <3> QED
      BY <2>1, <3>1, <3>3, Countable
  <2>3. CASE u # work[w].account
    <3>1. Creating(u)' \subseteq Creating(u)
      BY <1>5, <1>7, <2>3 DEF Creating, At, Idle, Request
    <3>2. /\ Cardinality(Creating(u)') <= Cardinality(Creating(u))
          /\ Cardinality(Creating(u)') \in Nat
      BY <3>1, Countable, FS_Subset, FS_CardinalityType
    <3>3. Cardinality(ActiveKeys(u)) + Cardinality(Creating(u))
            < MAX_ACTIVE_KEYS + Cardinality(Workers)
      BY DEF KeyInv, PlacesAreLimited
    <3> QED
      BY <2>1, <3>2, <3>3, Countable
  <2> QED
    BY <2>2, <2>3
<1> QED
  BY <1>9, <1>10, <1>11 DEF KeyInv

\* The key that is inserted takes the place of its request.
LEMMA CommitCreateKeeps ==
  ASSUME KeyInv, NEW w \in Workers, CommitCreate(w)
  PROVE  KeyInv' /\ KeysSurvive
<1>0. TypeOK /\ DOMAIN work = Workers
  BY DEF KeyInv
<1>1. PICK k \in KeyIds :
        /\ At(w, "CREATE") /\ api_key[k] = None
        /\ api_key' = [api_key EXCEPT ![k] = work[w].set]
        /\ written' = "api_keys" /\ Move(w, None) /\ UNCHANGED <<active, now>>
  BY DEF CommitCreate
<1>2. PICK row \in KeyRow : row = work[w].set /\ row.owner = work[w].account
  BY <1>1 DEF At, KeyInv, RequestsAreSound, RequestIsSound
<1>3. api_key'[k] = row /\ \A j \in KeyIds \ {k} : api_key'[j] = api_key[j]
  BY <1>0, <1>1, <1>2 DEF TypeOK
<1>4. KeysSurvive /\ KeysTyped
  BY <1>0, <1>1, <1>2, <1>3 DEF KeysSurvive, KeysTyped, TypeOK
<1>5. TypeOK' /\ (DOMAIN work = Workers)' /\ RequestsAreSound'
  BY <1>1, <1>4, MoveKeeps DEF Resources
<1>6. work'[w] = None /\ \A v \in Workers : v # w => work'[v] = work[v]
  BY <1>0, <1>1 DEF Move
<1>7. PlacesAreLimited'
  <2> SUFFICES ASSUME NEW u \in Users
               PROVE  Cardinality(ActiveKeys(u)') + Cardinality(Creating(u)')
                        < MAX_ACTIVE_KEYS + Cardinality(Workers)
    BY DEF PlacesAreLimited
  <2>1. Cardinality(ActiveKeys(u)) + Cardinality(Creating(u))
          < MAX_ACTIVE_KEYS + Cardinality(Workers)
    BY DEF KeyInv, PlacesAreLimited
  <2>2. CASE u = row.owner
    <3>1. ActiveKeys(u)' \subseteq ActiveKeys(u) \cup {k}
      <4>1. \A j \in KeyIds \ {k} : j \in ActiveKeys(u)' => j \in ActiveKeys(u)
        BY <1>1, <1>3 DEF ActiveKeys, KeysOf, key_state
      <4>2. ActiveKeys(u)' \subseteq KeyIds
        BY DEF ActiveKeys, KeysOf
      <4> QED
        BY <4>1, <4>2
    <3>2. Creating(u)' = Creating(u) \ {w} /\ w \in Creating(u)
      BY <1>1, <1>2, <1>6, <2>2 DEF Creating, At, Idle
    <3>3. Cardinality(Creating(u)') = Cardinality(Creating(u)) - 1
      <4>1. IsFiniteSet(Creating(u))
        BY Countable
      <4> QED
        BY <3>2, <4>1, OneFewer
    <3>4. k \notin ActiveKeys(u)
      BY <1>1 DEF ActiveKeys, KeysOf
    <3>5. /\ IsFiniteSet(ActiveKeys(u) \cup {k})
          /\ Cardinality(ActiveKeys(u) \cup {k}) = Cardinality(ActiveKeys(u)) + 1
      BY <3>4, Countable, FS_AddElement
    <3>6. /\ Cardinality(ActiveKeys(u)') <= Cardinality(ActiveKeys(u)) + 1
          /\ Cardinality(ActiveKeys(u)') \in Nat
      BY <3>1, <3>5, FS_Subset, FS_CardinalityType
    <3> QED
      BY <2>1, <3>3, <3>6, Countable
  <2>3. CASE u # row.owner
    <3>1. ActiveKeys(u)' \subseteq ActiveKeys(u)
      BY <1>1, <1>3, <2>3 DEF ActiveKeys, KeysOf, key_state
    <3>2. Creating(u)' \subseteq Creating(u)
      BY <1>6 DEF Creating, At, Idle
    <3>3. /\ Cardinality(ActiveKeys(u)') <= Cardinality(ActiveKeys(u))
          /\ Cardinality(Creating(u)') <= Cardinality(Creating(u))
          /\ Cardinality(ActiveKeys(u)') \in Nat /\ Cardinality(Creating(u)') \in Nat
      BY <3>1, <3>2, Countable, FS_Subset, FS_CardinalityType
    <3> QED
      BY <2>1, <3>3, Countable
  <2> QED
    BY <2>2, <2>3
<1> QED
  BY <1>4, <1>5, <1>7 DEF KeyInv

\* Suspensions leave the keys; a day that passes only lets keys expire.
LEMMA SurroundingsKeep ==
  ASSUME KeyInv, (\E u \in Users : update_user(u)) \/ DayPasses \/ UNCHANGED vars
  PROVE  KeyInv' /\ KeysSurvive
<1>0. TypeOK
  BY DEF KeyInv
<1>1. /\ UNCHANGED <<api_key, written, work>>
      /\ now' \in 0..MaxTime /\ now' >= now
      /\ active' \in [Users -> BOOLEAN]
  <2>1. ASSUME NEW u \in Users, update_user(u) PROVE active' \in [Users -> BOOLEAN]
    BY <1>0, <2>1 DEF update_user, TypeOK
  <2>2. CASE \E u \in Users : update_user(u)
    BY <1>0, <2>1, <2>2 DEF update_user, TypeOK
  <2>3. CASE DayPasses
    BY <1>0, <2>3 DEF DayPasses, TypeOK
  <2>4. CASE UNCHANGED vars
    BY <1>0, <2>4 DEF vars, TypeOK
  <2> QED
    BY <2>2, <2>3, <2>4
<1>2. KeysSurvive
  BY <1>0, <1>1, UntouchedKeys
<1>3. RequestsAreSound' /\ TypeOK' /\ DOMAIN work' = Workers
  BY <1>1 DEF KeyInv, RequestsAreSound, RequestIsSound, Idle, TypeOK
<1>4. \A u \in Users : ActiveKeys(u)' \subseteq ActiveKeys(u)
  BY <1>0, <1>1, NoNewActive
<1>5. \A u \in Users : Creating(u)' \subseteq Creating(u)
  BY <1>1 DEF Creating, At, Idle
<1>6. PlacesAreLimited'
  BY <1>4, <1>5, FewerPlaces DEF KeyInv
<1> QED
  BY <1>2, <1>3, <1>6 DEF KeyInv

\* Nobody has a key and no request runs.
LEMMA InitKeys == Init => KeyInv
<1> SUFFICES ASSUME Init PROVE KeyInv
  OBVIOUS
<1>1. TypeOK /\ DOMAIN work = Workers /\ RequestsAreSound
  BY DEF Init, TypeOK, RequestsAreSound, Idle, Resources
<1>2. ASSUME NEW u \in Users
      PROVE  Cardinality(ActiveKeys(u)) + Cardinality(Creating(u))
               < MAX_ACTIVE_KEYS + Cardinality(Workers)
  <2>1. ActiveKeys(u) = {} /\ Creating(u) = {}
    BY DEF Init, ActiveKeys, KeysOf, Creating, At, Idle
  <2> QED
    BY <2>1, FS_EmptySet, FS_CardinalityType
<1> QED
  BY <1>1, <1>2 DEF KeyInv, PlacesAreLimited

\* Every step keeps the invariant and every key.
LEMMA StepKeeps ==
  ASSUME KeyInv, [Next]_vars
  PROVE  KeyInv' /\ KeysSurvive
  BY AuthenticationKeeps, HandlerKeeps, CreateKeeps, CommitCreateKeeps, SurroundingsKeep DEF Next

-----------------------------------------------------------------------------
(* Theorems                                                                *)

\* Every state the service reaches satisfies the invariant.
THEOREM KeysInvariant == Spec => []KeyInv
<1>1. KeyInv /\ [Next]_vars => KeyInv'
  BY StepKeeps
<1> QED
  BY InitKeys, <1>1, PTL DEF Spec

\* Key rows, accounts, the clock and the running requests have their types.
THEOREM KeysAreTyped == Spec => []TypeOK
<1>1. KeyInv => TypeOK
  BY DEF KeyInv
<1> QED
  BY KeysInvariant, <1>1, PTL

\* create_key counts and then inserts: whatever requests overlap, an owner has
\* fewer active keys than the maximum and the running requests together.
THEOREM KeyLimit == Spec => []ActiveKeysAreLimited
<1>1. KeyInv => ActiveKeysAreLimited
  BY Countable DEF KeyInv, PlacesAreLimited, ActiveKeysAreLimited
<1> QED
  BY KeysInvariant, <1>1, PTL

\* A request that came in with a key is one whose use is on record.
THEOREM UsesStayRecorded == Spec => []UsesAreRecorded
<1>1. KeyInv => UsesAreRecorded
  BY DEF KeyInv, RequestsAreSound, RequestIsSound, UsesAreRecorded, At
<1> QED
  BY KeysInvariant, <1>1, PTL

\* No commit takes a revocation or a use back, or changes what a key opens.
THEOREM RevocationIsFinal == Spec => RevokedForGood
<1>1. KeyInv /\ [Next]_vars =>
        [\A k \in KeyIds : api_key[k] # None =>
           /\ api_key'[k] # None
           /\ \A c \in {"owner", "scopes", "expires_at"} : api_key'[k][c] = api_key[k][c]
           /\ \A c \in {"revoked_at", "last_used_at"} :
                api_key[k][c] = "SET" => api_key'[k][c] = "SET"]_vars
  BY StepKeeps DEF KeysSurvive
<1> QED
  BY KeysInvariant, <1>1, PTL DEF Spec, RevokedForGood

\* The agreement of the scope table with the routers, for every key: what a
\* request with a key commits is a table its scopes name.
THEOREM ScopesAreKept == Spec => KeysKeepToTheirScopes
<1> DEFINE Kept ==
      \A w \in Workers :
        ~Idle(w) /\ ~At(w, "FOUND") /\ work[w].key # None /\ work'[w] # work[w] =>
          /\ api_key' = api_key
          /\ written' # written => written' \in MayChange(api_key[work[w].key].scopes)
<1>1. ASSUME KeyInv, [Next]_vars PROVE [Kept]_vars
  <2> SUFFICES ASSUME Next, NEW w \in Workers, ~Idle(w), ~At(w, "FOUND"),
                      work[w].key # None, work'[w] # work[w]
               PROVE  /\ api_key' = api_key
                      /\ written' # written =>
                           written' \in MayChange(api_key[work[w].key].scopes)
    BY <1>1
  <2>1. RequestIsSound(w) /\ work[w].stage = "IN"
    BY <1>1 DEF KeyInv, RequestsAreSound, RequestIsSound, At
  <2>2. ASSUME NEW v \in Workers, NEW r, Move(v, r) PROVE v = w
    BY <1>1, <2>2 DEF Move, KeyInv
  <2>3. \/ Handle(w) \/ create_key(w) \/ revoke_key(w) \/ Rollback(w)
    <3>1. ASSUME NEW v \in Workers,
                 \/ \E k \in KeyIds : authenticate_key(v, k)
                 \/ \E u \in Users : _authenticate_jwt(v, u)
                 \/ get_principal(v)
          PROVE  FALSE
      <4>1. v = w
        BY <2>2, <3>1 DEF authenticate_key, _authenticate_jwt, get_principal
      <4> QED
        BY <3>1, <4>1 DEF authenticate_key, _authenticate_jwt, get_principal
    <3>2. ASSUME NEW v \in Workers, CommitCreate(v) \/ CommitRevoke(v) PROVE FALSE
      <4>1. v = w
        BY <2>2, <3>2 DEF CommitCreate, CommitRevoke
      <4> QED
        BY <2>1, <3>2, <4>1 DEF CommitCreate, CommitRevoke, At
    <3>3. ASSUME NEW v \in Workers, Handle(v) \/ create_key(v) \/ revoke_key(v) \/ Rollback(v)
          PROVE  v = w
      <4>1. PICK r : Move(v, r)
        BY <3>3 DEF Handle, create_key, revoke_key, Rollback
      <4> QED
        BY <2>2, <4>1
    <3>4. ~(\E u \in Users : update_user(u)) /\ ~DayPasses
      BY DEF update_user, DayPasses
    <3> QED
      BY <3>1, <3>2, <3>3, <3>4 DEF Next
  <2>4. CASE Handle(w)
    <3>1. PICK r \in Writable \ {"api_keys"} :
            Admitted(w, <<"POST", r>>) /\ written' = r /\ UNCHANGED api_key
      BY <2>4 DEF Handle
    <3> DEFINE route == <<"POST", r>>
    <3>2. route[1] = "POST" /\ route[2] = r
      OBVIOUS
    <3>3. r # "passwords"
      BY <3>1, <3>2 DEF Admitted, get_jwt_principal
    <3>4. required_scope_for(route) # None =>
            required_scope_for(route) \in api_key[work[w].key].scopes
      BY <3>1, <3>2 DEF Admitted, _enforce_scope
    <3>5. r \in {"own", "trips", "expenses", "admin"}
      BY <3>3 DEF Writable, Resources
    <3>6. None \notin {"trips:write", "expenses:write", "admin"}
      BY DEF ApiKeyScope
    <3>7. /\ r = "trips" => required_scope_for(route) = "trips:write"
          /\ r = "expenses" => required_scope_for(route) = "expenses:write"
          /\ r = "admin" => required_scope_for(route) = "admin"
      BY DEF required_scope_for
    <3> QED
      BY <3>1, <3>4, <3>5, <3>6, <3>7 DEF MayChange
  <2>5. CASE create_key(w) \/ revoke_key(w) \/ Rollback(w)
    BY <2>5 DEF create_key, revoke_key, Rollback
  <2> QED
    BY <2>3, <2>4, <2>5
<1> QED
  BY KeysInvariant, <1>1, PTL DEF Spec, KeysKeepToTheirScopes
=============================================================================
