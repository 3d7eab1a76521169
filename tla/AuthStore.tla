------------------------------ MODULE AuthStore ------------------------------
(***************************************************************************)
(* The session of the browser: the store of every open tab, the local      *)
(* storage they share, and the requests that are still to be answered      *)
(* (lib/stores/auth.svelte.ts, lib/stores/admin-resource.svelte.ts,        *)
(* routes/+layout.svelte, lib/components/AppShell.svelte).                 *)
(*                                                                         *)
(* Scripts run to the next await without interruption: an action is what   *)
(* happens between two of them.  Answers come in any order, or never come  *)
(* and the request fails.                                                  *)
(***************************************************************************)
EXTENDS Naturals, FiniteSets

CONSTANTS
  None,      \* JavaScript's null
  Tabs,
  Users,
  Tokens,    \* the access tokens the server may issue
  Owner,     \* [Tokens -> Users]
  Requests   \* bound: requests that are under way at one time

ASSUME AuthStoreAssumption ==
  /\ Owner \in [Tokens -> Users]
  /\ None \notin Tokens \cup Users \cup Requests

VARIABLES
  store,    \* by tab: what its scripts hold
  stored,   \* localStorage['skon.token'], shared by the tabs
  request,  \* the requests under way, or None
  issued,   \* the tokens the server has issued
  expired   \* those it does not accept any more

vars == <<store, stored, request, issued, expired>>

StoreRow ==
  [token : Tokens \cup {None}, user : Users \cup {None}, loading : BOOLEAN,
   restored : BOOLEAN, page : {"public", "private"}, busy : Requests \cup {None}]

RequestRow ==
  [tab : Tabs, kind : {"me", "login", "page", "action", "load"}, token : Tokens \cup {None}]

ASSUME NullIsNoRequest == None \notin RequestRow

Free(q) == request[q] = None

Send(q, tab, kind, token) ==
  request' = [request EXCEPT ![q] = [tab |-> tab, kind |-> kind, token |-> token]]

Settled(q) == request' = [request EXCEPT ![q] = None]

\* goto: the page that is left takes its resource with it.
Goto(row, page) == [row EXCEPT !.page = page, !.busy = None]

Accepted(token) == token # None /\ token \notin expired

-----------------------------------------------------------------------------
(* auth.svelte.ts                                                          *)

\* Mutant: the token is forgotten, the user stays in the header.
clear_token(row) == [row EXCEPT !.token = None]

clear(row) == [row EXCEPT !.token = None, !.user = None]

\* Mutant: the layout does not wait for the restoration.
Restored_atOnce(token) == TRUE

\* Without a token there is nothing to wait for.
Restored(token) == token = None

\* A page is loaded: the scripts start anew, earlier requests lose their reader.
\* Bound: a tab that is still restoring is not loaded once more.
Open(tab, page) ==
  /\ store[tab].restored
  /\ store' = [store EXCEPT ![tab] =
       [token |-> stored, user |-> None, loading |-> stored # None,
        restored |-> Restored(stored), page |-> page, busy |-> None]]
  /\ LET others == [q \in Requests |->
                      IF ~Free(q) /\ request[q].tab = tab THEN None ELSE request[q]]
     IN IF stored = None
        THEN request' = others
        ELSE \E q \in Requests :
               /\ others[q] = None
               /\ request' = [others EXCEPT ![q] =
                                [tab |-> tab, kind |-> "me", token |-> stored]]
  /\ UNCHANGED <<stored, issued, expired>>

\* Mutant: the token that was found good is written back.
KeptInStorage_restored(token) == token

\* The restoration only reads the storage.
KeptInStorage(token) == stored

\* restore() and then the layout; whatever fails, the session is dropped, and
\* with it the token another tab may have stored meanwhile.
RestoreEnds(q, answered) ==
  /\ ~Free(q) /\ request[q].kind = "me"
  /\ LET tab == request[q].tab
         row == [store[tab] EXCEPT !.loading = FALSE, !.restored = TRUE]
     IN IF answered /\ Accepted(request[q].token)
        THEN /\ store' = [store EXCEPT ![tab] = [row EXCEPT !.user = Owner[request[q].token]]]
             /\ stored' = KeptInStorage(request[q].token)
        ELSE /\ store' = [store EXCEPT ![tab] = clear(row)]
             /\ stored' = None
  /\ Settled(q)
  /\ UNCHANGED <<issued, expired>>

login(tab) ==
  /\ store[tab].restored /\ store[tab].page = "public"
  /\ store' = [store EXCEPT ![tab].loading = TRUE]
  /\ \E q \in Requests : Free(q) /\ Send(q, tab, "login", None)
  /\ UNCHANGED <<stored, issued, expired>>

LoginSucceeds(q) ==
  /\ ~Free(q) /\ request[q].kind = "login"
  /\ \E t \in Tokens \ issued :
       /\ issued' = issued \cup {t}
       /\ stored' = t
       /\ store' = [store EXCEPT ![request[q].tab] =
                      Goto([@ EXCEPT !.token = t, !.user = Owner[t], !.loading = FALSE],
                           "private")]
  /\ Settled(q)
  /\ UNCHANGED expired

LoginFailed(row) == [row EXCEPT !.loading = FALSE]

LoginFails(q) ==
  /\ ~Free(q) /\ request[q].kind = "login"
  /\ store' = [store EXCEPT ![request[q].tab] = LoginFailed(@)]
  /\ Settled(q)
  /\ UNCHANGED <<stored, issued, expired>>

-----------------------------------------------------------------------------
(* authRequest: the token is the one of the moment of the call             *)

\* The pages behind the login are there once there is a user.
Shown(tab) == store[tab].restored /\ store[tab].user # None /\ store[tab].page = "private"

PageRequest(tab) ==
  /\ Shown(tab)
  /\ \E q \in Requests : Free(q) /\ Send(q, tab, "page", store[tab].token)
  /\ UNCHANGED <<store, stored, issued, expired>>

\* A 401 drops the session the tab has now, also when it was an earlier one's.
Unauthorized(row) == Goto(clear(row), "public")

\* Mutant: a refusal is an error like any other.
Over_notCaught(q, row, answered) == row

\* What a request that is over leaves behind: nothing, or the end of a session.
Over(q, row, answered) ==
  IF answered /\ ~Accepted(request[q].token) THEN Unauthorized(row) ELSE row

StorageOver(q, answered) ==
  IF answered /\ ~Accepted(request[q].token) THEN None ELSE stored

PageRequestEnds(q, answered) ==
  /\ ~Free(q) /\ request[q].kind = "page"
  /\ store' = [store EXCEPT ![request[q].tab] = Over(q, @, answered)]
  /\ stored' = StorageOver(q, answered)
  /\ Settled(q)
  /\ UNCHANGED <<issued, expired>>

-----------------------------------------------------------------------------
(* AdminResource.run: one write, then the list is loaded again             *)

run(tab) ==
  /\ Shown(tab)
  /\ store[tab].busy = None
  /\ \E q \in Requests :
       /\ Free(q)
       /\ Send(q, tab, "action", store[tab].token)
       /\ store' = [store EXCEPT ![tab].busy = q]
  /\ UNCHANGED <<stored, issued, expired>>

\* Mutant: busy is reset on success only.
Finally_not(q, row, failed) ==
  IF row.busy = q /\ ~failed THEN [row EXCEPT !.busy = None] ELSE row

\* The page may have been left: then another resource is shown by now.
Finally(q, row, failed) == IF row.busy = q THEN [row EXCEPT !.busy = None] ELSE row

\* The action was accepted: load() with the token of now, which may be none.
ActionSucceeds(q) ==
  /\ ~Free(q) /\ request[q].kind = "action" /\ Accepted(request[q].token)
  /\ Send(q, request[q].tab, "load", store[request[q].tab].token)
  /\ UNCHANGED <<store, stored, issued, expired>>

ActionFails(q, answered) ==
  /\ ~Free(q) /\ request[q].kind = "action"
  /\ store' = [store EXCEPT ![request[q].tab] = Finally(q, Over(q, @, answered), TRUE)]
  /\ stored' = StorageOver(q, answered)
  /\ Settled(q)
  /\ UNCHANGED <<issued, expired>>

\* load() swallows its own failure.
LoadEnds(q, answered) ==
  /\ ~Free(q) /\ request[q].kind = "load"
  /\ store' = [store EXCEPT ![request[q].tab] = Finally(q, Over(q, @, answered), FALSE)]
  /\ stored' = StorageOver(q, answered)
  /\ Settled(q)
  /\ UNCHANGED <<issued, expired>>

-----------------------------------------------------------------------------
(* AppShell, the guard of the layout, and the server                       *)

signOut(tab) ==
  /\ Shown(tab)
  /\ store' = [store EXCEPT ![tab] = Goto(clear(@), "public")]
  /\ stored' = None
  /\ UNCHANGED <<request, issued, expired>>

\* Another page, with a resource of its own.
Navigate(tab, page) ==
  /\ store[tab].restored
  /\ store' = [store EXCEPT ![tab] = Goto(@, page)]
  /\ UNCHANGED <<stored, request, issued, expired>>

MustLeave(tab) == store[tab].user = None /\ store[tab].page = "private"

\* The effect of the layout.
Guard(tab) ==
  /\ store[tab].restored
  /\ MustLeave(tab)
  /\ store' = [store EXCEPT ![tab] = Goto(@, "public")]
  /\ UNCHANGED <<stored, request, issued, expired>>

\* Eight hours have passed, or the account was suspended.
Expire(t) ==
  /\ t \in issued \ expired
  /\ expired' = expired \cup {t}
  /\ UNCHANGED <<store, stored, request, issued>>

Init ==
  /\ store = [tab \in Tabs |->
       [token |-> None, user |-> None, loading |-> FALSE, restored |-> TRUE,
        page |-> "public", busy |-> None]]
  /\ stored = None
  /\ request = [q \in Requests |-> None]
  /\ issued = {}
  /\ expired = {}

\* A request is answered, or fails without an answer.
Settle(q) ==
  \/ LoginSucceeds(q)
  \/ LoginFails(q)
  \/ ActionSucceeds(q)
  \/ \E answered \in BOOLEAN :
       \/ RestoreEnds(q, answered)
       \/ PageRequestEnds(q, answered)
       \/ ActionFails(q, answered)
       \/ LoadEnds(q, answered)

Next ==
  \/ \E tab \in Tabs :
       \/ \E page \in {"public", "private"} : Open(tab, page) \/ Navigate(tab, page)
       \/ login(tab)
       \/ PageRequest(tab)
       \/ run(tab)
       \/ signOut(tab)
       \/ Guard(tab)
  \/ \E q \in Requests : Settle(q)
  \/ \E t \in Tokens : Expire(t)

\* fetch settles in the end, and effects run; nobody must click.
Fairness ==
  /\ \A q \in Requests : WF_vars(Settle(q))
  /\ \A tab \in Tabs : WF_vars(Guard(tab))

Spec == Init /\ [][Next]_vars /\ Fairness

-----------------------------------------------------------------------------
(* Properties                                                              *)

\* Types, and the wait of the layout: a tab is restored or has one request to
\* /auth/me under way.
TypeOK ==
  /\ store \in [Tabs -> StoreRow]
  /\ stored \in issued \cup {None}
  /\ request \in [Requests -> RequestRow \cup {None}]
  /\ expired \subseteq issued /\ issued \subseteq Tokens
  /\ \A tab \in Tabs :
       Cardinality({q \in Requests : ~Free(q) /\ request[q].tab = tab /\ request[q].kind = "me"})
         = IF store[tab].restored THEN 0 ELSE 1

\* Whatever order logins, refusals of earlier sessions, sign-outs and answers to
\* them come in: the header never names one user while the requests carry the
\* token of another, or none.
UserIsOfTheToken ==
  \A tab \in Tabs : store[tab].restored =>
    store[tab].user = IF store[tab].token = None THEN None ELSE Owner[store[tab].token]

\* A token that has left the storage never returns to it, so a tab that was
\* restoring while another signed out cannot bring the session back.
RemovedTokensStayRemoved ==
  [][\A t \in issued : stored # t => stored' # t]_vars

\* A screen that is busy with a write is released, and the session store stops
\* loading, whether the requests succeed, fail or are refused, and whatever the
\* other tabs do; and nobody stays on a page behind the login without a user.
WaitingEnds ==
  \A tab \in Tabs :
    /\ store[tab].loading ~> ~store[tab].loading
    /\ store[tab].busy # None ~> store[tab].busy = None
    /\ store[tab].user = None /\ store[tab].page = "private"
         ~> store[tab].user # None \/ store[tab].page = "public"

\* A request of the tab's own session is answered.
Heard(tab) ==
  \E q \in Requests :
    /\ ~Free(q) /\ request[q].tab = tab /\ request[q].kind \in {"page", "action", "load"}
    /\ request[q].token = store[tab].token
    /\ PageRequestEnds(q, TRUE) \/ LoadEnds(q, TRUE) \/ ActionSucceeds(q) \/ ActionFails(q, TRUE)

\* authRequest: a session that expires midway does not go on; the first answers
\* to its requests end it.
ExpiredSessionsEnd ==
  \A tab \in Tabs :
    []<><<Heard(tab)>>_vars => (store[tab].token \in expired ~> store[tab].token \notin expired)
=============================================================================
