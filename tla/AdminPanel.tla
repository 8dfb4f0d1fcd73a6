----------------------------- MODULE AdminPanel -----------------------------
(***************************************************************************)
(* What an admin request passes on its way to a handler: the rate limiter  *)
(* (middleware/rate_limit.rs), the admin cookie (middleware/admin_auth.rs) *)
(* and the CSRF token (admin.rs), with the pages of one browser that share *)
(* its cookies, other clients, and reloads that change the admin token.    *)
(* What an accepted edit does is in Deployment and ConfigReload.           *)
(*                                                                         *)
(* Time passes in ticks.  An instant is kept as the ticks since it.        *)
(***************************************************************************)
EXTENDS Integers, FiniteSetsExt, Functions

CONSTANTS
  Tabs,                \* pages open in one browser
  Others,              \* clients without cookies
  AddressOf,           \* client -> its address
  Tokens,              \* values of admin_token
  NoToken,             \* none configured, or no such cookie
  NoTab,               \* no CSRF cookie
  NoEntry,             \* an address the store does not know
  MaxRequests,         \* max_requests, 10
  Window,              \* window_duration in ticks
  MaxWait,             \* bound of the model: ticks spent waiting for the store
  ConnectInfoProvided  \* whether the server hands on the peer's address

ASSUME LimitAssumption ==
  /\ MaxRequests \in Nat \ {0} /\ Window \in Nat \ {0}
  /\ MaxWait \in 0..(Window - 1)
  /\ ConnectInfoProvided \in BOOLEAN

ASSUME NamesAssumption ==
  /\ NoToken \notin Tokens /\ NoTab \notin Tabs /\ Tabs \cap Others = {}
  /\ DOMAIN AddressOf = Tabs \cup Others
  /\ NoEntry \notin [count : Nat, age : Nat]

VARIABLES
  store,               \* address -> count and age of the window, or NoEntry
  task,                \* client -> its request and where it is
  last,                \* client -> the status of its response, 0 until it comes
  token,               \* AppState.config.server.admin_token
  cookie,              \* the browser's admin_token cookie
  csrfCookie,          \* the tab whose CSRF token the browser's cookie holds
  fetched,             \* the tabs that hold a CSRF token
  watch                \* history: address -> a span of time, its age and how
                       \* many requests were let through in it

browser == <<cookie, csrfCookie, fetched>>
vars == <<store, task, last, token, browser, watch>>

Clients   == Tabs \cup Others
Addresses == Range(AddressOf)

\* page: a route of admin_routes without authentication; fetch: /csrf-token;
\* edit: one of authed_routes.
Kinds(c) == IF c \in Tabs THEN {"login", "fetch", "edit"} ELSE {"page"}

Away(c) == [pc |-> "away", kind |-> CHOOSE k \in Kinds(c) : TRUE, wait |-> 0,
            cookie |-> NoToken, matches |-> FALSE]

OldestAge == 2 * Window + MaxWait

\* The length of the spans that are watched, and one that is over.
Span == Window - MaxWait
Over == [age |-> Span, passed |-> 0]

TypeOK ==
  /\ \A a \in Addresses : store[a] # NoEntry =>
       store[a].count \in 0..MaxRequests /\ store[a].age \in 0..OldestAge
  /\ \A c \in Clients :
       /\ task[c].pc \in {"away", "limit", "auth", "csrf", "handle", "refetch"}
       /\ task[c].kind \in Kinds(c) /\ task[c].wait \in 0..MaxWait
       /\ task[c].cookie \in Tokens \cup {NoToken}
       /\ last[c] \in {0, 200, 202, 403, 429, 500}
  /\ {token, cookie} \subseteq Tokens \cup {NoToken}
  /\ csrfCookie \in fetched \cup {NoTab} /\ fetched \subseteq Tabs

Init ==
  /\ store = [a \in Addresses |-> NoEntry]
  /\ task = [c \in Clients |-> Away(c)]
  /\ last = [c \in Clients |-> 0]
  /\ token \in Tokens \cup {NoToken} /\ cookie = NoToken
  /\ csrfCookie = NoTab /\ fetched = {}
  /\ watch = [a \in Addresses |-> Over]
-----------------------------------------------------------------------------
\* A request leaves with the cookies and the header of that moment, and the
\* middleware reads the clock.  A page whose edit was refused with 403 asks for a
\* new CSRF token first (static/keys_management.html:94-98).
Ask(c, kind) ==
  /\ task[c].pc \in {"away", "refetch"}
  /\ task[c].pc = "refetch" => kind = "fetch"
  /\ IF ConnectInfoProvided
     THEN /\ task' = [task EXCEPT ![c] =
               [pc |-> "limit", kind |-> kind, wait |-> 0,
                cookie |-> IF kind = "edit" THEN cookie ELSE NoToken,
                matches |-> kind = "edit" /\ c \in fetched /\ csrfCookie = c]]
          /\ last' = [last EXCEPT ![c] = 0]
     ELSE task' = [task EXCEPT ![c] = Away(c)] /\ last' = [last EXCEPT ![c] = 500]
  /\ UNCHANGED <<store, token, browser, watch>>

\* The response reaches the client: fetchWithAuth, which the page edits with,
\* gets a new CSRF token after a 403; a login uses plain fetch and does not.
Answer(c, status) ==
  /\ last' = [last EXCEPT ![c] = status]
  /\ task' = [task EXCEPT ![c] =
       IF status = 403 /\ task[c].kind = "edit"
       THEN [Away(c) EXCEPT !.pc = "refetch"] ELSE Away(c)]

Goes(c, place) == task' = [task EXCEPT ![c].pc = place] /\ UNCHANGED last
-----------------------------------------------------------------------------
\* duration_since a window that began that long ago, seen by a request that
\* read its clock before it waited: it saturates at 0.
Elapsed(age, wait) == IF age > wait THEN age - wait ELSE 0

\* The entry the request is counted in: as it is, inserted, or begun anew.
CurrentEntry(entry, wait) ==
  IF entry = NoEntry \/ Elapsed(entry.age, wait) >= Window
  THEN [count |-> 0, age |-> wait]
  ELSE entry

\* Mutant: one request more than the limit is let through.
WithinLate(entry) == entry.count <= MaxRequests

Within(entry) == entry.count < MaxRequests

\* Entries that nobody used for two windows go, whoever's they are.
Retained(entries, wait) ==
  [a \in Addresses |->
     IF entries[a] # NoEntry /\ Elapsed(entries[a].age, wait) >= 2 * Window
     THEN NoEntry ELSE entries[a]]

NextPlace(kind) == IF kind = "edit" THEN "auth" ELSE "handle"

\* A span that is being watched has one request more.
Counting(span) ==
  IF span.age < Span THEN [span EXCEPT !.passed = @ + 1] ELSE span

\* rate_limit_middleware with the store locked.
Pass(c) ==
  LET a     == AddressOf[c]
      entry == CurrentEntry(store[a], task[c].wait)
  IN  /\ task[c].pc = "limit" /\ Within(entry)
      /\ store' = Retained([store EXCEPT ![a] = [entry EXCEPT !.count = @ + 1]],
                           task[c].wait)
      /\ watch' = [watch EXCEPT ![a] = Counting(@)]
      /\ Goes(c, NextPlace(task[c].kind))
      /\ UNCHANGED <<token, browser>>

\* Mutant: refused requests are counted like the others.
RefuseCounts(c) ==
  LET a     == AddressOf[c]
      entry == CurrentEntry(store[a], task[c].wait)
  IN  /\ task[c].pc = "limit" /\ ~Within(entry)
      /\ store' = [store EXCEPT ![a] = [entry EXCEPT !.count = @ + 1]]
      /\ Answer(c, 429)
      /\ UNCHANGED <<token, browser, watch>>

\* Mutant: a refused request starts the window again.
RefuseRestarts(c) ==
  LET a     == AddressOf[c]
      entry == CurrentEntry(store[a], task[c].wait)
  IN  /\ task[c].pc = "limit" /\ ~Within(entry)
      /\ store' = [store EXCEPT ![a] = [entry EXCEPT !.age = task[c].wait]]
      /\ Answer(c, 429)
      /\ UNCHANGED <<token, browser, watch>>

\* The early return: nothing is counted, nothing cleaned up.
Refuse(c) ==
  LET a     == AddressOf[c]
      entry == CurrentEntry(store[a], task[c].wait)
  IN  /\ task[c].pc = "limit" /\ ~Within(entry)
      /\ store' = [store EXCEPT ![a] = entry]
      /\ Answer(c, 429)
      /\ UNCHANGED <<token, browser, watch>>
-----------------------------------------------------------------------------
\* Mutant: the guard on the configuration is dropped before the handler.
ReadersUntilHandler ==
  {c \in Clients : task[c].kind = "edit" /\ task[c].pc = "csrf"}

\* The requests that hold the configuration for reading: admin_auth_middleware
\* keeps its guard to the end of the request.
Readers ==
  {c \in Clients : task[c].kind = "edit" /\ task[c].pc \in {"csrf", "handle"}}

\* admin_auth_middleware.
Authorise(c) ==
  /\ task[c].pc = "auth"
  /\ IF token # NoToken /\ task[c].cookie = token THEN Goes(c, "csrf")
                                                   ELSE Answer(c, 403)
  /\ UNCHANGED <<store, token, browser, watch>>

\* csrf_middleware.
CheckCsrf(c) ==
  /\ task[c].pc = "csrf"
  /\ IF task[c].matches THEN Goes(c, "handle") ELSE Answer(c, 403)
  /\ UNCHANGED <<store, token, browser, watch>>

\* add_keys, delete_keys and update_config answer 202, the others 501, which
\* makes no difference here.
HandleEdit(c) ==
  /\ task[c].pc = "handle" /\ task[c].kind = "edit"
  /\ Answer(c, 202)
  /\ UNCHANGED <<store, token, browser, watch>>

\* serve_dashboard, list_keys, detailed_health and the other listings.
HandlePage(c) ==
  /\ task[c].pc = "handle" /\ task[c].kind = "page"
  /\ Answer(c, 200)
  /\ UNCHANGED <<store, token, browser, watch>>

\* login, with the token of the configuration or with another text.
Login(c) ==
  /\ task[c].pc = "handle" /\ task[c].kind = "login"
  /\ \/ token # NoToken /\ cookie' = token /\ Answer(c, 200)
     \/ UNCHANGED cookie /\ Answer(c, 403)
  /\ UNCHANGED <<store, token, csrfCookie, fetched, watch>>

\* get_csrf_token: cookie and page hold the new token once the answer is there.
FetchCsrf(c) ==
  /\ task[c].pc = "handle" /\ task[c].kind = "fetch"
  /\ csrfCookie' = c /\ fetched' = fetched \cup {c}
  /\ Answer(c, 200)
  /\ UNCHANGED <<store, token, cookie, watch>>

\* A reload swaps the configuration in when nobody holds it.
Reload ==
  /\ Readers = {}
  /\ token' \in (Tokens \cup {NoToken}) \ {token}
  /\ UNCHANGED <<store, task, last, browser, watch>>

Older(age) == Min({age + 1, OldestAge})

Tick ==
  /\ \A c \in Clients : task[c].pc = "limit" => task[c].wait < MaxWait
  /\ task' = [c \in Clients |->
       IF task[c].pc = "limit" THEN [task[c] EXCEPT !.wait = @ + 1] ELSE task[c]]
  /\ store' = [a \in Addresses |->
       IF store[a] = NoEntry THEN NoEntry
       ELSE [store[a] EXCEPT !.age = Older(@)]]
  /\ watch' = [a \in Addresses |->
       IF watch[a].age + 1 < Span THEN [watch[a] EXCEPT !.age = @ + 1] ELSE Over]
  /\ UNCHANGED <<last, token, browser>>

\* History: any moment may begin a span.
Watch(a) ==
  /\ watch[a] = Over
  /\ watch' = [watch EXCEPT ![a] = [age |-> 0, passed |-> 0]]
  /\ UNCHANGED <<store, task, last, token, browser>>
-----------------------------------------------------------------------------
Step(c) ==
  \/ Pass(c) \/ Refuse(c) \/ Authorise(c) \/ CheckCsrf(c)
  \/ HandleEdit(c) \/ HandlePage(c) \/ Login(c) \/ FetchCsrf(c)

Next ==
  \/ \E c \in Clients : (\E kind \in Kinds(c) : Ask(c, kind)) \/ Step(c)
  \/ \E a \in Addresses : Watch(a)
  \/ Reload \/ Tick

Spec == Init /\ [][Next]_vars

\* Time passes, a request that can go on does, and the clients without a
\* browser keep asking.
FairSpec ==
  /\ Spec /\ WF_vars(Tick)
  /\ \A c \in Clients : WF_vars(Step(c))
  /\ \A c \in Others  : WF_vars(Ask(c, "page"))
-----------------------------------------------------------------------------
(* Properties *)

\* Twice the limit at most gets through in any span as long as the window less
\* the longest wait for the store: the window is fixed, and the clock is read
\* before the store is locked (rate_limit.rs:59-73).
BurstBounded ==
  \A a \in Addresses : watch[a].passed <= 2 * MaxRequests

\* While the handler of an edit runs, the token it was authorised by is the one
\* configured, although a reload may change it at any other moment
\* (admin_auth.rs:37-49).
HandlersRunUnderCurrentToken ==
  \A c \in Clients :
    task[c].pc = "handle" /\ task[c].kind = "edit" =>
      token # NoToken /\ task[c].cookie = token

\* An address from which somebody keeps asking is let through again and again,
\* however often it was refused (rate_limit.rs:70-84).
AskersLetThrough ==
  \A c \in Others :
    []<><<\E d \in Clients : AddressOf[d] = AddressOf[c] /\ Pass(d)>>_vars
=============================================================================
