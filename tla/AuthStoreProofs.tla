--------------------------- MODULE AuthStoreProofs ---------------------------
(***************************************************************************)
(* Theorems about AuthStore, for every set of tabs, tokens and requests    *)
(* and for every order in which answers and failures come in.              *)
(***************************************************************************)
EXTENDS AuthStore, FiniteSetTheorems, TLAPS

USE AuthStoreAssumption

-----------------------------------------------------------------------------
(* The inductive invariant                                                 *)

Types ==
  /\ store \in [Tabs -> StoreRow]
  /\ stored \in issued \cup {None}
  /\ request \in [Requests -> RequestRow \cup {None}]
  /\ expired \subseteq issued /\ issued \subseteq Tokens

\* Nobody holds a token that was not issued.
TokensWereIssued ==
  /\ \A tab \in Tabs : store[tab].token \in issued \cup {None}
  /\ \A q \in Requests : ~Free(q) => request[q].token \in issued \cup {None}

\* The requests to /auth/me of a tab.
Restorations(tab) ==
  {q \in Requests : ~Free(q) /\ request[q].tab = tab /\ request[q].kind = "me"}

\* A tab that restores does nothing else, and it holds the token it asks about.
RestoringTabsWait ==
  \A tab \in Tabs :
    /\ store[tab].restored => Restorations(tab) = {}
    /\ ~store[tab].restored =>
         /\ \E q \in Requests : Restorations(tab) = {q}
         /\ \A q \in Requests : ~Free(q) /\ request[q].tab = tab =>
              request[q].kind = "me" /\ request[q].token = store[tab].token
         /\ store[tab].token # None

\* UserIsOfTheToken, of one row.
Consistent(r) == r.restored => r.user = IF r.token = None THEN None ELSE Owner[r.token]

StoreInv == Types /\ TokensWereIssued /\ RestoringTabsWait /\ UserIsOfTheToken

-----------------------------------------------------------------------------
(* Rows                                                                    *)

\* What dropping a session and leaving a page make of a row.
LEMMA RowChanges ==
  ASSUME NEW r \in StoreRow, NEW page \in {"public", "private"}, Consistent(r)
  PROVE  /\ Goto(r, page) \in StoreRow /\ clear(r) \in StoreRow /\ Unauthorized(r) \in StoreRow
         /\ Goto(r, page).restored = r.restored /\ clear(r).restored = r.restored
         /\ Unauthorized(r).restored = r.restored
         /\ Goto(r, page).token = r.token /\ clear(r).token = None /\ Unauthorized(r).token = None
         /\ Consistent(Goto(r, page)) /\ Consistent(clear(r)) /\ Consistent(Unauthorized(r))
  BY DEF Goto, clear, Unauthorized, StoreRow, Consistent

\* The end of a request, with or without the finally of run().
LEMMA OverRow ==
  ASSUME NEW r \in StoreRow, Consistent(r), NEW q \in Requests,
         NEW answered \in BOOLEAN, NEW failed \in BOOLEAN,
         NEW over \in {Over(q, r, answered), Finally(q, Over(q, r, answered), failed)}
  PROVE  over \in StoreRow /\ over.restored = r.restored /\ over.token \in {r.token, None}
         /\ Consistent(over)
<1>1. PICK o : o = Over(q, r, answered)
  OBVIOUS
<1>2. /\ o \in StoreRow /\ o.restored = r.restored /\ o.token \in {r.token, None}
      /\ Consistent(o)
  BY <1>1, RowChanges DEF Over
<1>3. /\ Finally(q, o, failed) \in StoreRow
      /\ Finally(q, o, failed).restored = o.restored
      /\ Finally(q, o, failed).token = o.token /\ Finally(q, o, failed).user = o.user
  BY <1>2 DEF Finally, StoreRow
<1> QED
  BY <1>1, <1>2, <1>3 DEF Consistent

-----------------------------------------------------------------------------
(* Steps                                                                   *)

\* A request of a restored tab is none to /auth/me, and only those tabs have others.
LEMMA OrdinaryRequests ==
  ASSUME StoreInv, NEW q \in Requests, ~Free(q)
  PROVE  request[q] \in RequestRow /\ (store[request[q].tab].restored <=> request[q].kind # "me")
<1>1. request[q] \in RequestRow /\ request[q].tab \in Tabs
  BY DEF StoreInv, Types, Free, RequestRow
<1>2. request[q].kind = "me" => q \in Restorations(request[q].tab)
  BY DEF Restorations
<1> QED
  BY <1>1, <1>2 DEF StoreInv, RestoringTabsWait

\* What a restored tab does to its own row and its own requests keeps the
\* invariant: the other tabs do not notice.
LEMMA RestoredTabKeeps ==
  ASSUME StoreInv, NEW tab \in Tabs, store[tab].restored,
         NEW r \in StoreRow, r.restored, Consistent(r), r.token \in issued' \cup {None},
         store' = [store EXCEPT ![tab] = r],
         stored' \in issued' \cup {None},
         issued \subseteq issued', issued' \subseteq Tokens, expired' \subseteq issued',
         request' \in [Requests -> RequestRow \cup {None}],
         \A q \in Requests :
           \/ request'[q] = request[q]
           \/ /\ Free(q) \/ request[q].tab = tab
              /\ \/ request'[q] = None
                 \/ /\ request'[q].tab = tab /\ request'[q].kind # "me"
                    /\ request'[q].token \in issued' \cup {None}
  PROVE  StoreInv'
<1>1. /\ store'[tab] = r /\ \A t \in Tabs : t # tab => store'[t] = store[t]
      /\ store' \in [Tabs -> StoreRow]
  BY DEF StoreInv, Types
<1>2. Types'
  BY <1>1 DEF Types
<1>3. TokensWereIssued'
  BY <1>1 DEF StoreInv, TokensWereIssued, Free
<1>4. UserIsOfTheToken'
  BY <1>1 DEF StoreInv, UserIsOfTheToken, Consistent
<1>5. Restorations(tab) = {} /\ Restorations(tab)' = {}
  BY DEF StoreInv, RestoringTabsWait, Restorations, Free
<1>6. ASSUME NEW t \in Tabs, t # tab
      PROVE  /\ Restorations(t)' = Restorations(t)
             /\ \A q \in Requests : ~Free(q)' /\ request'[q].tab = t => request'[q] = request[q]
  BY <1>6 DEF Restorations, Free
<1>7. RestoringTabsWait'
  <2> SUFFICES ASSUME NEW t \in Tabs
               PROVE  /\ store'[t].restored => Restorations(t)' = {}
                      /\ ~store'[t].restored =>
                           /\ \E q \in Requests : Restorations(t)' = {q}
                           /\ \A q \in Requests : ~Free(q)' /\ request'[q].tab = t =>
                                request'[q].kind = "me" /\ request'[q].token = store'[t].token
                           /\ store'[t].token # None
    BY DEF RestoringTabsWait
  <2>1. CASE t = tab
    BY <1>1, <1>5, <2>1
  <2>2. CASE t # tab
    BY <1>1, <1>6, <2>2 DEF StoreInv, RestoringTabsWait, Free
  <2> QED
    BY <2>1, <2>2
<1> QED
  BY <1>2, <1>3, <1>4, <1>7 DEF StoreInv

\* The row of a tab, and the token its next request carries.
LEMMA RowOfTab ==
  ASSUME StoreInv, NEW tab \in Tabs
  PROVE  /\ store[tab] \in StoreRow /\ Consistent(store[tab])
         /\ store[tab].token \in issued \cup {None}
  BY DEF StoreInv, Types, TokensWereIssued, UserIsOfTheToken, Consistent

\* A request of a restored tab begins.
LEMMA SendTyped ==
  ASSUME StoreInv, NEW q \in Requests, NEW tab \in Tabs,
         NEW kind \in {"login", "page", "action", "load"}, NEW token \in issued \cup {None},
         Free(q) \/ request[q].tab = tab, Send(q, tab, kind, token)
  PROVE  /\ request' \in [Requests -> RequestRow \cup {None}]
         /\ \A p \in Requests :
              \/ request'[p] = request[p]
              \/ /\ Free(p) \/ request[p].tab = tab
                 /\ request'[p].tab = tab /\ request'[p].kind # "me"
                 /\ request'[p].token \in issued \cup {None}
<1>1. PICK r \in RequestRow : r = [tab |-> tab, kind |-> kind, token |-> token]
  BY DEF RequestRow, StoreInv, Types
<1>2. request' = [request EXCEPT ![q] = r] /\ request \in [Requests -> RequestRow \cup {None}]
  BY <1>1 DEF Send, StoreInv, Types
<1>3. request'[q] = r /\ \A p \in Requests : p # q => request'[p] = request[p]
  BY <1>2
<1>4. r.tab = tab /\ r.kind # "me" /\ r.token = token
  BY <1>1
<1> QED
  BY <1>2, <1>3, <1>4

\* A request is over.
LEMMA SettledTyped ==
  ASSUME StoreInv, NEW q \in Requests, ~Free(q), Settled(q)
  PROVE  /\ request' \in [Requests -> RequestRow \cup {None}]
         /\ request'[q] = None /\ \A p \in Requests : p # q => request'[p] = request[p]
  BY DEF Settled, StoreInv, Types

\* A restored tab sends a request.
LEMMA SendKeeps ==
  ASSUME StoreInv, NEW tab \in Tabs, store[tab].restored,
         NEW r \in StoreRow, r.restored, Consistent(r), r.token = store[tab].token,
         store' = [store EXCEPT ![tab] = r],
         UNCHANGED <<stored, issued, expired>>,
         NEW q \in Requests, NEW kind \in {"login", "page", "action", "load"},
         NEW token \in issued \cup {None},
         Free(q) \/ request[q].tab = tab, Send(q, tab, kind, token)
  PROVE  StoreInv'
<1>1. /\ stored' \in issued' \cup {None} /\ issued \subseteq issued'
      /\ issued' \subseteq Tokens /\ expired' \subseteq issued'
  BY DEF StoreInv, Types
<1>2. r.token \in issued' \cup {None}
  BY RowOfTab
<1>3. /\ request' \in [Requests -> RequestRow \cup {None}]
      /\ \A p \in Requests :
           \/ request'[p] = request[p]
           \/ /\ Free(p) \/ request[p].tab = tab
              /\ \/ request'[p] = None
                 \/ /\ request'[p].tab = tab /\ request'[p].kind # "me"
                    /\ request'[p].token \in issued' \cup {None}
  BY SendTyped
<1> QED
  BY <1>1, <1>2, <1>3, RestoredTabKeeps

\* A request of a restored tab is over.
LEMMA SettleKeeps ==
  ASSUME StoreInv, NEW q \in Requests, ~Free(q), Settled(q),
         NEW tab \in Tabs, tab = request[q].tab, store[tab].restored,
         NEW r \in StoreRow, r.restored, Consistent(r), r.token \in issued' \cup {None},
         store' = [store EXCEPT ![tab] = r],
         stored' \in issued' \cup {None}, issued \subseteq issued', issued' \subseteq Tokens,
         UNCHANGED expired
  PROVE  StoreInv'
<1>1. expired' \subseteq issued'
  BY DEF StoreInv, Types
<1>2. /\ request' \in [Requests -> RequestRow \cup {None}]
      /\ \A p \in Requests :
           \/ request'[p] = request[p]
           \/ /\ Free(p) \/ request[p].tab = tab
              /\ \/ request'[p] = None
                 \/ /\ request'[p].tab = tab /\ request'[p].kind # "me"
                    /\ request'[p].token \in issued' \cup {None}
  BY SettledTyped
<1> QED
  BY <1>1, <1>2, RestoredTabKeeps

\* What a user does in a restored tab.
LEMMA TabKeeps ==
  ASSUME StoreInv, NEW tab \in Tabs,
         \/ login(tab) \/ PageRequest(tab) \/ run(tab) \/ signOut(tab) \/ Guard(tab)
         \/ \E page \in {"public", "private"} : Navigate(tab, page)
  PROVE  StoreInv'
<1>1. /\ store[tab] \in StoreRow /\ Consistent(store[tab])
      /\ store[tab].token \in issued \cup {None}
  BY RowOfTab
<1>2. Types
  BY DEF StoreInv
<1>3. CASE login(tab)
  <2> DEFINE r == [store[tab] EXCEPT !.loading = TRUE]
  <2>1. r \in StoreRow /\ r.restored /\ Consistent(r) /\ r.token = store[tab].token
    BY <1>1, <1>3 DEF login, StoreRow, Consistent
  <2>2. store' = [store EXCEPT ![tab] = r] /\ UNCHANGED <<stored, issued, expired>>
    BY <1>3 DEF login
  <2>3. PICK q \in Requests : Free(q) /\ Send(q, tab, "login", None)
    BY <1>3 DEF login
  <2>4. store[tab].restored
    BY <1>3 DEF login
  <2> HIDE DEF r
  <2> QED
    BY <1>1, <1>2, <2>1, <2>2, <2>3, <2>4, SendKeeps
<1>4. CASE PageRequest(tab)
  <2>1. PICK q \in Requests : Free(q) /\ Send(q, tab, "page", store[tab].token)
    BY <1>4 DEF PageRequest
  <2>2. store[tab].restored /\ UNCHANGED <<store, stored, issued, expired>>
    BY <1>4 DEF PageRequest, Shown
  <2>3. store' = [store EXCEPT ![tab] = store[tab]]
    BY <1>2, <2>2 DEF Types
  <2> QED
    BY <1>1, <2>1, <2>2, <2>3, SendKeeps
<1>5. CASE run(tab)
  <2>1. PICK q \in Requests :
          /\ Free(q) /\ Send(q, tab, "action", store[tab].token)
          /\ store' = [store EXCEPT ![tab].busy = q]
    BY <1>5 DEF run
  <2> DEFINE r == [store[tab] EXCEPT !.busy = q]
  <2>2. store[tab].restored /\ UNCHANGED <<stored, issued, expired>>
    BY <1>5 DEF run, Shown
  <2>3. r \in StoreRow /\ r.restored /\ Consistent(r) /\ r.token = store[tab].token
    BY <1>1, <2>2 DEF StoreRow, Consistent
  <2>4. store' = [store EXCEPT ![tab] = r]
    BY <2>1
  <2> HIDE DEF r
  <2> QED
    BY <1>1, <1>2, <2>1, <2>2, <2>3, <2>4, SendKeeps
<1>6. CASE signOut(tab)
  <2> DEFINE r == Goto(clear(store[tab]), "public")
  <2>1. store[tab].restored
    BY <1>6 DEF signOut, Shown
  <2>2. r \in StoreRow /\ r.restored /\ Consistent(r) /\ r.token = None
    BY <1>1, <2>1, RowChanges DEF Unauthorized
  <2>3. store' = [store EXCEPT ![tab] = r] /\ stored' = None /\ UNCHANGED <<request, issued, expired>>
    BY <1>6 DEF signOut
  <2> HIDE DEF r
  <2> QED
    BY <1>2, <2>1, <2>2, <2>3, RestoredTabKeeps DEF Types
<1>7. ASSUME NEW page \in {"public", "private"}, Navigate(tab, page)
      PROVE  StoreInv'
  <2> DEFINE r == Goto(store[tab], page)
  <2>1. store[tab].restored
    BY <1>7 DEF Navigate
  <2>2. r \in StoreRow /\ r.restored /\ Consistent(r) /\ r.token = store[tab].token
    BY <1>1, <2>1, RowChanges
  <2>3. store' = [store EXCEPT ![tab] = r] /\ UNCHANGED <<stored, request, issued, expired>>
    BY <1>7 DEF Navigate
  <2> HIDE DEF r
  <2> QED
    BY <1>1, <1>2, <2>1, <2>2, <2>3, RestoredTabKeeps DEF Types
<1>8. CASE Guard(tab)
  BY <1>7, <1>8 DEF Guard, Navigate
<1> QED
  BY <1>3, <1>4, <1>5, <1>6, <1>7, <1>8

\* The answers to the requests of a restored tab, and their failures.
LEMMA AnswerKeeps ==
  ASSUME StoreInv, NEW q \in Requests,
         \/ LoginSucceeds(q) \/ LoginFails(q) \/ ActionSucceeds(q)
         \/ \E answered \in BOOLEAN :
              PageRequestEnds(q, answered) \/ ActionFails(q, answered) \/ LoadEnds(q, answered)
  PROVE  StoreInv'
<1>1. ~Free(q) /\ request[q].kind # "me"
  BY DEF LoginSucceeds, LoginFails, ActionSucceeds, PageRequestEnds, ActionFails, LoadEnds
<1>2. PICK tab \in Tabs : tab = request[q].tab /\ store[tab].restored
  BY <1>1, OrdinaryRequests DEF RequestRow
<1>3. /\ store[tab] \in StoreRow /\ Consistent(store[tab])
      /\ store[tab].token \in issued \cup {None}
  BY RowOfTab
<1>4. Types
  BY DEF StoreInv
<1>5. CASE LoginSucceeds(q)
  <2>1. PICK t \in Tokens \ issued :
          /\ issued' = issued \cup {t} /\ stored' = t
          /\ store' = [store EXCEPT ![tab] =
                         Goto([@ EXCEPT !.token = t, !.user = Owner[t], !.loading = FALSE],
                              "private")]
          /\ Settled(q) /\ UNCHANGED expired
    BY <1>2, <1>5 DEF LoginSucceeds
  <2> DEFINE s == [store[tab] EXCEPT !.token = t, !.user = Owner[t], !.loading = FALSE]
             r == Goto(s, "private")
  <2>2. s \in StoreRow /\ s.restored /\ s.token = t /\ s.user = Owner[t]
    BY <1>2, <1>3 DEF StoreRow
  <2>3. Consistent(s)
    BY <2>2 DEF Consistent
  <2> HIDE DEF s
  <2>4. r \in StoreRow /\ r.restored /\ Consistent(r) /\ r.token = t
    BY <2>2, <2>3, RowChanges
  <2>5. store' = [store EXCEPT ![tab] = r]
    BY <2>1, <1>4 DEF Types, s
  <2> HIDE DEF r
  <2> QED
    BY <1>1, <1>2, <1>4, <2>1, <2>4, <2>5, SettleKeeps DEF Types
<1>6. CASE LoginFails(q)
  <2> DEFINE r == LoginFailed(store[tab])
  <2>1. /\ r \in StoreRow /\ r.restored /\ r.token = store[tab].token
        /\ r.user = store[tab].user
    BY <1>2, <1>3 DEF LoginFailed, StoreRow
  <2>2. Consistent(r)
    BY <1>2, <1>3, <2>1 DEF Consistent
  <2>3. store' = [store EXCEPT ![tab] = r] /\ Settled(q) /\ UNCHANGED <<stored, issued, expired>>
    BY <1>2, <1>6 DEF LoginFails
  <2> HIDE DEF r
  <2> QED
    BY <1>1, <1>2, <1>3, <1>4, <2>1, <2>2, <2>3, SettleKeeps DEF Types
<1>7. CASE ActionSucceeds(q)
  <2>1. Send(q, tab, "load", store[tab].token) /\ UNCHANGED <<store, stored, issued, expired>>
    BY <1>2, <1>7 DEF ActionSucceeds
  <2>2. store' = [store EXCEPT ![tab] = store[tab]]
    BY <1>4, <2>1 DEF Types
  <2> QED
    BY <1>2, <1>3, <2>1, <2>2, SendKeeps
<1>8. ASSUME NEW answered \in BOOLEAN,
             PageRequestEnds(q, answered) \/ ActionFails(q, answered) \/ LoadEnds(q, answered)
      PROVE  StoreInv'
  <2>1. /\ Settled(q) /\ UNCHANGED <<issued, expired>>
        /\ stored' \in {stored, None}
    BY <1>8 DEF PageRequestEnds, ActionFails, LoadEnds, StorageOver
  <2> DEFINE over == Over(q, store[tab], answered)
  <2>2. store' \in {[store EXCEPT ![tab] = over],
                    [store EXCEPT ![tab] = Finally(q, over, TRUE)],
                    [store EXCEPT ![tab] = Finally(q, over, FALSE)]}
    BY <1>2, <1>8 DEF PageRequestEnds, ActionFails, LoadEnds
  <2>3. PICK r \in {over, Finally(q, over, TRUE), Finally(q, over, FALSE)} :
          store' = [store EXCEPT ![tab] = r]
    BY <2>2
  <2>4. r \in StoreRow /\ r.restored = store[tab].restored /\ Consistent(r)
        /\ r.token \in {store[tab].token, None}
    <3>1. PICK failed \in BOOLEAN : r \in {over, Finally(q, over, failed)}
      OBVIOUS
    <3>2. PICK row \in StoreRow : row = store[tab] /\ Consistent(row)
      BY <1>3
    <3>3. r \in {Over(q, row, answered), Finally(q, Over(q, row, answered), failed)}
      BY <3>1, <3>2
    <3>4. r \in StoreRow /\ r.restored = row.restored /\ r.token \in {row.token, None} /\ Consistent(r)
      BY <3>2, <3>3, OverRow
    <3> QED
      BY <3>2, <3>4
  <2> QED
    BY <1>1, <1>2, <1>3, <1>4, <2>1, <2>3, <2>4, SettleKeeps DEF Types
<1> QED
  BY <1>5, <1>6, <1>7, <1>8

\* The restoration ends: the session is the one of the token, or there is none.
LEMMA RestoreKeeps ==
  ASSUME StoreInv, NEW q \in Requests, NEW answered \in BOOLEAN, RestoreEnds(q, answered)
  PROVE  StoreInv'
<1>0. ~Free(q) /\ request[q].kind = "me" /\ Settled(q) /\ UNCHANGED <<issued, expired>>
  BY DEF RestoreEnds
<1>1. PICK tab \in Tabs : tab = request[q].tab /\ ~store[tab].restored
  BY <1>0, OrdinaryRequests DEF RequestRow
<1>2. /\ store[tab] \in StoreRow /\ store[tab].token \in issued \cup {None}
      /\ request[q].token = store[tab].token /\ store[tab].token # None
  BY <1>0, <1>1, RowOfTab DEF StoreInv, RestoringTabsWait
<1> DEFINE row == [store[tab] EXCEPT !.loading = FALSE, !.restored = TRUE]
           good == answered /\ Accepted(request[q].token)
<1>3. row \in StoreRow /\ row.restored /\ row.token = store[tab].token
  BY <1>2 DEF StoreRow
<1>4. PICK r \in StoreRow :
        /\ store' = [store EXCEPT ![tab] = r] /\ r.restored /\ Consistent(r)
        /\ r.token \in issued \cup {None} /\ stored' \in {stored, None}
  <2>1. CASE good
    <3> DEFINE r == [row EXCEPT !.user = Owner[request[q].token]]
    <3>1. Owner[request[q].token] \in Users
      BY <1>2 DEF StoreInv, Types
    <3>2. r \in StoreRow /\ r.restored /\ r.token = row.token /\ r.user = Owner[request[q].token]
      BY <1>3, <3>1 DEF StoreRow
    <3>3. Consistent(r)
      BY <1>2, <1>3, <3>2 DEF Consistent
    <3>4. store' = [store EXCEPT ![tab] = r] /\ stored' = stored
      BY <1>1, <2>1 DEF RestoreEnds, KeptInStorage
    <3> QED
      BY <1>2, <1>3, <3>2, <3>3, <3>4
  <2>2. CASE ~good
    <3>1. clear(row) \in StoreRow /\ clear(row).restored /\ clear(row).token = None
      BY <1>3 DEF clear, StoreRow
    <3>2. clear(row).user = None
      BY <1>3 DEF clear, StoreRow
    <3>3. Consistent(clear(row))
      BY <3>1, <3>2 DEF Consistent
    <3>4. store' = [store EXCEPT ![tab] = clear(row)] /\ stored' = None
      BY <1>1, <2>2 DEF RestoreEnds
    <3> QED
      BY <3>1, <3>3, <3>4
  <2> QED
    BY <2>1, <2>2
<1>5. /\ request' \in [Requests -> RequestRow \cup {None}]
      /\ request'[q] = None /\ \A p \in Requests : p # q => request'[p] = request[p]
  BY <1>0, SettledTyped
<1>6. /\ store'[tab] = r /\ \A t \in Tabs : t # tab => store'[t] = store[t]
      /\ store' \in [Tabs -> StoreRow]
  BY <1>4 DEF StoreInv, Types
<1>7. Types'
  BY <1>0, <1>4, <1>5, <1>6 DEF StoreInv, Types
<1>8. TokensWereIssued'
  BY <1>0, <1>4, <1>5, <1>6 DEF StoreInv, TokensWereIssued, Free
<1>9. UserIsOfTheToken'
  BY <1>4, <1>6 DEF StoreInv, UserIsOfTheToken, Consistent
<1>10. RestoringTabsWait'
  <2> SUFFICES ASSUME NEW t \in Tabs
               PROVE  /\ store'[t].restored => Restorations(t)' = {}
                      /\ ~store'[t].restored =>
                           /\ \E p \in Requests : Restorations(t)' = {p}
                           /\ \A p \in Requests : ~Free(p)' /\ request'[p].tab = t =>
                                request'[p].kind = "me" /\ request'[p].token = store'[t].token
                           /\ store'[t].token # None
    BY DEF RestoringTabsWait
  <2>1. CASE t = tab
    <3>1. q \in Restorations(tab) /\ \E p \in Requests : Restorations(tab) = {p}
      BY <1>0, <1>1 DEF StoreInv, RestoringTabsWait, Restorations
    <3>2. Restorations(tab)' = Restorations(tab) \ {q}
      BY <1>5 DEF Restorations, Free
    <3> QED
      BY <1>4, <1>6, <2>1, <3>1, <3>2
  <2>2. CASE t # tab
    <3>1. Restorations(t)' = Restorations(t)
      BY <1>1, <1>5, <2>2 DEF Restorations, Free
    <3> QED
      BY <1>5, <1>6, <2>2, <3>1 DEF StoreInv, RestoringTabsWait, Free
  <2> QED
    BY <2>1, <2>2
<1> QED
  BY <1>7, <1>8, <1>9, <1>10 DEF StoreInv

\* A page is loaded: its scripts know the stored token and nothing else, and no
\* earlier request has a reader.
LEMMA OpenKeeps ==
  ASSUME StoreInv, NEW tab \in Tabs, NEW page \in {"public", "private"}, Open(tab, page)
  PROVE  StoreInv'
<1> DEFINE row == [token |-> stored, user |-> None, loading |-> stored # None,
                   restored |-> Restored(stored), page |-> page, busy |-> None]
           others == [q \in Requests |->
                        IF ~Free(q) /\ request[q].tab = tab THEN None ELSE request[q]]
<1>1. /\ store[tab].restored /\ UNCHANGED <<stored, issued, expired>>
      /\ store' = [store EXCEPT ![tab] = row]
  BY DEF Open
<1>2. Types /\ stored \in issued \cup {None} /\ stored \in Tokens \cup {None}
  BY DEF StoreInv, Types
<1>3. /\ row \in StoreRow /\ row.token = stored /\ (row.restored <=> stored = None)
      /\ Consistent(row)
  BY <1>2 DEF StoreRow, Restored, Consistent
<1>4. /\ store'[tab] = row /\ \A t \in Tabs : t # tab => store'[t] = store[t]
      /\ store' \in [Tabs -> StoreRow]
  BY <1>1, <1>2, <1>3 DEF Types
<1>5. others \in [Requests -> RequestRow \cup {None}]
  BY <1>2 DEF Types
<1>6. /\ request' \in [Requests -> RequestRow \cup {None}]
      /\ \A q \in Requests : ~Free(q)' /\ request'[q].tab # tab => request'[q] = request[q]
      /\ \A q \in Requests : ~Free(q) /\ request[q].tab # tab => request'[q] = request[q]
      /\ stored = None => \A q \in Requests : ~Free(q)' => request'[q].tab # tab
      /\ stored # None => \E q \in Requests :
           /\ ~Free(q)'
           /\ request'[q].tab = tab /\ request'[q].kind = "me" /\ request'[q].token = stored
           /\ \A p \in Requests : ~Free(p)' /\ request'[p].tab = tab => p = q
  <2>1. CASE stored = None
    <3>1. request' = others
      BY <2>1 DEF Open
    <3> QED
      BY <1>5, <2>1, <3>1 DEF Free
  <2>2. CASE stored # None
    <3>1. PICK q \in Requests :
            /\ others[q] = None
            /\ request' = [others EXCEPT ![q] = [tab |-> tab, kind |-> "me", token |-> stored]]
      BY <2>2 DEF Open
    <3>2. PICK r \in RequestRow : r = [tab |-> tab, kind |-> "me", token |-> stored]
      BY <1>2 DEF RequestRow
    <3>3. /\ request'[q] = r /\ \A p \in Requests : p # q => request'[p] = others[p]
          /\ request' \in [Requests -> RequestRow \cup {None}]
      BY <1>5, <3>1, <3>2
    <3>4. r # None
      BY NullIsNoRequest
    <3> QED
      BY <2>2, <3>1, <3>2, <3>3, <3>4 DEF Free
  <2> QED
    BY <2>1, <2>2
<1>7. Types'
  BY <1>1, <1>2, <1>4, <1>6 DEF Types
<1>8. ASSUME NEW q \in Requests, ~Free(q)'
      PROVE  (request'[q] = request[q] /\ ~Free(q)) \/ request'[q].token = stored
  <2>1. CASE request'[q].tab # tab
    BY <1>6, <1>8, <2>1 DEF Free
  <2>2. CASE request'[q].tab = tab
    BY <1>6, <1>8, <2>2
  <2> QED
    BY <2>1, <2>2
<1>9. TokensWereIssued'
  <2>1. \A t \in Tabs : store'[t].token \in issued \cup {None}
    BY <1>2, <1>3, <1>4, RowOfTab
  <2>2. \A q \in Requests : ~Free(q)' => request'[q].token \in issued \cup {None}
    BY <1>2, <1>8 DEF StoreInv, TokensWereIssued
  <2> QED
    BY <1>1, <2>1, <2>2 DEF TokensWereIssued
<1>10. UserIsOfTheToken'
  BY <1>3, <1>4 DEF StoreInv, UserIsOfTheToken, Consistent
<1>11. RestoringTabsWait'
  <2> HIDE DEF row, others
  <2> SUFFICES ASSUME NEW t \in Tabs
               PROVE  /\ store'[t].restored => Restorations(t)' = {}
                      /\ ~store'[t].restored =>
                           /\ \E p \in Requests : Restorations(t)' = {p}
                           /\ \A p \in Requests : ~Free(p)' /\ request'[p].tab = t =>
                                request'[p].kind = "me" /\ request'[p].token = store'[t].token
                           /\ store'[t].token # None
    BY DEF RestoringTabsWait
  <2>1. CASE t = tab
    <3>1. CASE stored = None
      BY <1>3, <1>4, <1>6, <2>1, <3>1 DEF Restorations
    <3>2. CASE stored # None
      BY <1>3, <1>4, <1>6, <2>1, <3>2 DEF Restorations
    <3> QED
      BY <3>1, <3>2
  <2>2. CASE t # tab
    <3>1. Restorations(t)' = Restorations(t)
      BY <1>6, <2>2 DEF Restorations, Free
    <3> QED
      BY <1>4, <1>6, <2>2, <3>1 DEF StoreInv, RestoringTabsWait, Free
  <2> QED
    BY <2>1, <2>2
<1> QED
  BY <1>7, <1>9, <1>10, <1>11 DEF StoreInv

\* No tab has a session or a request at first.
LEMMA InitStore == Init => StoreInv
<1> SUFFICES ASSUME Init PROVE StoreInv
  OBVIOUS
<1>1. Types
  BY DEF Init, Types, StoreRow
<1>2. \A tab \in Tabs : store[tab].restored /\ store[tab].token = None /\ store[tab].user = None
  BY DEF Init
<1>3. \A q \in Requests : Free(q)
  BY DEF Init, Free
<1> QED
  BY <1>1, <1>2, <1>3
  DEF StoreInv, TokensWereIssued, RestoringTabsWait, Restorations, UserIsOfTheToken

\* A token expires, or nothing happens.
LEMMA ElseKeeps ==
  ASSUME StoreInv, (\E t \in Tokens : Expire(t)) \/ UNCHANGED vars
  PROVE  StoreInv'
<1>1. UNCHANGED <<store, stored, request, issued>> /\ expired' \subseteq issued'
  BY DEF Expire, vars, StoreInv, Types
<1> QED
  BY <1>1 DEF StoreInv, Types, TokensWereIssued, RestoringTabsWait, Restorations, Free,
              UserIsOfTheToken

\* Every step keeps the invariant.
LEMMA StepKeeps ==
  ASSUME StoreInv, [Next]_vars
  PROVE  StoreInv'
<1>1. ASSUME NEW tab \in Tabs, NEW page \in {"public", "private"},
             \/ Open(tab, page) \/ Navigate(tab, page) \/ login(tab) \/ PageRequest(tab)
             \/ run(tab) \/ signOut(tab) \/ Guard(tab)
      PROVE  StoreInv'
  BY <1>1, OpenKeeps, TabKeeps
<1>2. ASSUME NEW q \in Requests, Settle(q)
      PROVE  StoreInv'
  BY <1>2, AnswerKeeps, RestoreKeeps DEF Settle
<1> QED
  BY <1>1, <1>2, ElseKeeps DEF Next

-----------------------------------------------------------------------------
(* Theorems                                                                *)

\* Every state of the browsers satisfies the invariant.
THEOREM StoreInvariant == Spec => []StoreInv
<1>1. StoreInv /\ [Next]_vars => StoreInv'
  BY StepKeeps
<1> QED
  BY InitStore, <1>1, PTL DEF Spec

\* Stores, storage and requests have their types, and a tab restores with
\* exactly one request: the layout waits for one answer, and for none afterwards.
THEOREM StoreIsTyped == Spec => []TypeOK
<1>1. ASSUME StoreInv PROVE TypeOK
  <2>1. ASSUME NEW tab \in Tabs
        PROVE  Cardinality(Restorations(tab)) = IF store[tab].restored THEN 0 ELSE 1
    BY <1>1, FS_EmptySet, FS_Singleton DEF StoreInv, RestoringTabsWait
  <2> QED
    BY <1>1, <2>1 DEF StoreInv, Types, TypeOK, Restorations
<1> QED
  BY StoreInvariant, <1>1, PTL

\* The header names the user of the token, whatever the order of answers.
THEOREM HeaderIsOfTheToken == Spec => []UserIsOfTheToken
<1>1. StoreInv => UserIsOfTheToken
  BY DEF StoreInv
<1> QED
  BY StoreInvariant, <1>1, PTL

\* No step, of whatever tab, puts a token back that has left the storage.
THEOREM TokensLeaveForGood == Spec => RemovedTokensStayRemoved
<1> DEFINE Gone == \A t \in issued : stored # t => stored' # t
<1>1. ASSUME StoreInv, Next PROVE stored' \in {stored, None} \/ stored' \notin issued
  <2>1. ASSUME NEW q \in Requests, LoginSucceeds(q) PROVE stored' \notin issued
    BY <2>1 DEF LoginSucceeds
  <2>2. ASSUME NEW q \in Requests, Settle(q), ~LoginSucceeds(q) PROVE stored' \in {stored, None}
    BY <2>2 DEF Settle, LoginFails, ActionSucceeds, RestoreEnds, KeptInStorage,
                PageRequestEnds, ActionFails, LoadEnds, StorageOver
  <2>3. ASSUME NEW tab \in Tabs, NEW page \in {"public", "private"},
               \/ Open(tab, page) \/ Navigate(tab, page) \/ login(tab) \/ PageRequest(tab)
               \/ run(tab) \/ signOut(tab) \/ Guard(tab)
        PROVE  stored' \in {stored, None}
    BY <2>3 DEF Open, Navigate, login, PageRequest, run, signOut, Guard
  <2>4. ASSUME NEW t \in Tokens, Expire(t) PROVE stored' = stored
    BY <2>4 DEF Expire
  <2> QED
    BY <1>1, <2>1, <2>2, <2>3, <2>4 DEF Next
<1>2. StoreInv => None \notin issued
  BY DEF StoreInv, Types
<1>3. StoreInv /\ [Next]_vars => [Gone]_vars
  BY <1>1, <1>2
<1> QED
  BY StoreInvariant, <1>3, PTL DEF Spec, RemovedTokensStayRemoved
=============================================================================
