-------------------------- MODULE AdminPanel_proofs --------------------------
(***************************************************************************)
(* Proofs about AdminPanel: its type invariant, that an edit is only       *)
(* handled under the admin token it was authorised by, and the bound on    *)
(* what the limiter lets through.  AskersLetThrough stays with TLC.        *)
(***************************************************************************)
EXTENDS AdminPanel, TLAPS

Fields == {"pc", "kind", "wait", "cookie", "matches"}
Places == {"away", "limit", "auth", "csrf", "handle", "refetch"}

\* A record that may be a client's task.
TaskOK(c, t) ==
  /\ DOMAIN t = Fields
  /\ t.pc \in Places /\ t.kind \in Kinds(c) /\ t.wait \in 0..MaxWait
  /\ t.cookie \in Tokens \cup {NoToken}

\* A record that may be an address's entry.
EntryOK(e) ==
  DOMAIN e = {"count", "age"} /\ e.count \in 0..MaxRequests /\ e.age \in 0..OldestAge

\* An edit past the authentication carries the token configured.
Current(t) ==
  t.kind = "edit" /\ t.pc \in {"csrf", "handle"} =>
    token # NoToken /\ t.cookie = token

TasksOK   == DOMAIN task = Clients /\ \A c \in Clients : TaskOK(c, task[c])
EditsCurrent == \A c \in Clients : Current(task[c])
StoreOK   ==
  DOMAIN store = Addresses /\ \A a \in Addresses : store[a] # NoEntry => EntryOK(store[a])
LastOK    ==
  DOMAIN last = Clients /\ \A c \in Clients : last[c] \in {0, 200, 202, 403, 429, 500}
BrowserOK ==
  /\ {token, cookie} \subseteq Tokens \cup {NoToken}
  /\ csrfCookie \in fetched \cup {NoTab} /\ fetched \subseteq Tabs

\* What was let through in the span w is in the current window's count, or else in
\* that of the window before, which ended in the span: then the current window is
\* as young as the span, up to a wait, and outlives it.
SpanOK(w, e) ==
  /\ DOMAIN w = {"age", "passed"} /\ w.age \in 0..Span /\ w.passed \in Nat
  /\ w.age = Span => w.passed = 0
  /\ \/ e = NoEntry /\ w.passed <= MaxRequests
     \/ e # NoEntry /\ w.passed <= e.count
     \/ /\ e # NoEntry /\ w.age < Span /\ e.age <= w.age + MaxWait
        /\ w.passed <= MaxRequests + e.count

WatchOK == DOMAIN watch = Addresses /\ \A a \in Addresses : SpanOK(watch[a], store[a])

\* The inductive invariant.  TypeOK alone is not inductive: a step that updates
\* a field needs the record's shape, and HandlersRunUnderCurrentToken needs the
\* token to be right from the moment the guard on the configuration is taken.
IInv == TasksOK /\ StoreOK /\ LastOK /\ BrowserOK /\ EditsCurrent /\ WatchOK
-----------------------------------------------------------------------------
\* A client always has something to ask for.
LEMMA SomeKind == \A c : Kinds(c) # {} /\ (CHOOSE k \in Kinds(c) : TRUE) \in Kinds(c)
BY DEF Kinds

\* The task of a client that asks for nothing is one.
LEMMA AwayOK ==
  ASSUME NEW c
  PROVE  /\ TaskOK(c, Away(c)) /\ Current(Away(c))
         /\ TaskOK(c, [Away(c) EXCEPT !.pc = "refetch"])
         /\ Current([Away(c) EXCEPT !.pc = "refetch"])
<1> DEFINE k == CHOOSE k \in Kinds(c) : TRUE
<1>1. k \in Kinds(c)
  BY SomeKind
<1>2. Away(c) = [pc |-> "away", kind |-> k, wait |-> 0, cookie |-> NoToken,
                 matches |-> FALSE]
  BY DEF Away
<1>3. 0 \in 0..MaxWait
  BY LimitAssumption
<1> HIDE DEF k
<1> QED
  BY <1>1, <1>2, <1>3 DEF TaskOK, Current, Fields, Places

\* Moving a request leaves the rest of it alone.
LEMMA MovedOK ==
  ASSUME NEW c, NEW t, TaskOK(c, t), NEW place \in Places
  PROVE  LET moved == [t EXCEPT !.pc = place]
         IN  /\ TaskOK(c, moved) /\ moved.pc = place
             /\ moved.kind = t.kind /\ moved.cookie = t.cookie
BY DEF TaskOK, Fields, Places

\* A step that replaces one client's task by one that is right keeps all right.
LEMMA OneTask ==
  ASSUME TasksOK, EditsCurrent, token' = token,
         NEW c \in Clients, NEW t, TaskOK(c, t), Current(t),
         task' = [task EXCEPT ![c] = t]
  PROVE  TasksOK' /\ EditsCurrent'
<1>1. \A d \in Clients : task'[d] = IF d = c THEN t ELSE task[d]
  BY DEF TasksOK
<1>2. DOMAIN task' = Clients
  BY DEF TasksOK
<1>3. \A d \in Clients : TaskOK(d, task'[d]) /\ Current(task'[d])
  BY <1>1 DEF TasksOK, EditsCurrent
<1>4. \A d \in Clients : TaskOK(d, task[d])' /\ Current(task[d])'
  BY <1>3 DEF TaskOK, Current, Kinds
<1> QED
  BY <1>2, <1>4 DEF TasksOK, EditsCurrent, Clients

\* A request that moves, except to where the guard is held, stays right.
LEMMA Moves ==
  ASSUME IInv, token' = token, NEW c \in Clients, NEW place \in Places, Goes(c, place),
         task[c].kind = "edit" /\ place \in {"csrf", "handle"} =>
           token # NoToken /\ task[c].cookie = token
  PROVE  TasksOK' /\ EditsCurrent' /\ LastOK'
<1> DEFINE t == [task[c] EXCEPT !.pc = place]
<1>1. TaskOK(c, task[c])
  BY DEF IInv, TasksOK
<1>2. TaskOK(c, t) /\ t.pc = place /\ t.kind = task[c].kind /\ t.cookie = task[c].cookie
  BY <1>1, MovedOK
<1>3. task' = [task EXCEPT ![c] = t]
  BY DEF Goes
<1> HIDE DEF t
<1>4. Current(t)
  BY <1>2 DEF Current
<1>5. TasksOK' /\ EditsCurrent'
  BY <1>2, <1>3, <1>4, OneTask DEF IInv
<1> QED
  BY <1>5 DEF IInv, LastOK, Goes, Clients

\* An answer leaves its client away, or about to fetch a CSRF token.
LEMMA Answers ==
  ASSUME IInv, token' = token, NEW c \in Clients,
         NEW status \in {200, 202, 403, 429, 500}, Answer(c, status)
  PROVE  TasksOK' /\ EditsCurrent' /\ LastOK'
<1> DEFINE t == IF status = 403 /\ task[c].kind = "edit"
                THEN [Away(c) EXCEPT !.pc = "refetch"] ELSE Away(c)
<1>1. TaskOK(c, t) /\ Current(t)
  BY AwayOK
<1>2. task' = [task EXCEPT ![c] = t]
  BY DEF Answer
<1> HIDE DEF t
<1>3. TasksOK' /\ EditsCurrent'
  BY <1>1, <1>2, OneTask DEF IInv
<1> QED
  BY <1>3 DEF IInv, LastOK, Answer, Clients

\* The entry a request is counted in is one, and so is what counting makes.
LEMMA Counted ==
  ASSUME StoreOK, NEW a \in Addresses, NEW wait \in 0..MaxWait
  PROVE  LET entry == CurrentEntry(store[a], wait)
         IN  /\ EntryOK(entry)
             /\ Within(entry) => EntryOK([entry EXCEPT !.count = @ + 1])
<1> DEFINE entry == CurrentEntry(store[a], wait)
<1>1. EntryOK([count |-> 0, age |-> wait])
  BY LimitAssumption DEF EntryOK, OldestAge
<1>2. EntryOK(entry)
  BY <1>1 DEF CurrentEntry, StoreOK
<1> HIDE DEF entry
<1>3. Within(entry) => EntryOK([entry EXCEPT !.count = @ + 1])
  BY <1>2, LimitAssumption DEF EntryOK, Within
<1> QED
  BY <1>2, <1>3 DEF entry

\* A client's address is one.
LEMMA AddressOK == ASSUME NEW c \in Clients PROVE AddressOf[c] \in Addresses
BY NamesAssumption DEF Clients, Addresses, Range

\* What the store keeps are entries it had.
LEMMA RetainedOK ==
  ASSUME NEW s, NEW wait,
         \A a \in Addresses : s[a] # NoEntry => EntryOK(s[a]),
         store' = Retained(s, wait)
  PROVE  StoreOK'
<1>1. \A a \in Addresses : store'[a] # NoEntry => EntryOK(store'[a])
  BY DEF Retained
<1>2. DOMAIN store' = Addresses
  BY DEF Retained
<1> QED
  BY <1>1, <1>2 DEF StoreOK, EntryOK, Addresses, OldestAge

\* Who leaves the limiter's store alone keeps it, and what is watched of it.
LEMMA StoreKept == StoreOK /\ UNCHANGED store => StoreOK'
BY DEF StoreOK, EntryOK, Addresses, OldestAge

\* So it does with the spans.
LEMMA WatchKept == WatchOK /\ UNCHANGED <<store, watch>> => WatchOK'
BY DEF WatchOK, SpanOK, Addresses, Span

\* A changed entry is not the absence of one.
LEMMA ChangedIsEntry ==
  ASSUME NEW e, EntryOK(e), NEW n \in Nat
  PROVE  /\ [e EXCEPT !.count = n] # NoEntry
         /\ [e EXCEPT !.age = n] # NoEntry
<1>1. e.count \in Nat /\ e.age \in Nat /\ DOMAIN e = {"count", "age"}
  BY LimitAssumption DEF EntryOK, OldestAge
<1>2. [e EXCEPT !.count = n] = [count |-> n, age |-> e.age]
  BY <1>1
<1>3. [e EXCEPT !.age = n] = [count |-> e.count, age |-> n]
  BY <1>1
<1> QED
  BY <1>1, <1>2, <1>3, NamesAssumption

\* A request that is let through is counted in its window.  If it begins one, the
\* window before it was longer than the span, and is not followed by a third.
LEMMA CountingOK ==
  ASSUME NEW w, NEW e, SpanOK(w, e), NEW wait \in 0..MaxWait,
         e # NoEntry => EntryOK(e),
         NEW n, DOMAIN n = {"count", "age"}, n # NoEntry,
         Within(CurrentEntry(e, wait)),
         n.count = CurrentEntry(e, wait).count + 1,
         n.age = CurrentEntry(e, wait).age
  PROVE  SpanOK(Counting(w), n)
<1> DEFINE v == Counting(w)
<1> SUFFICES SpanOK(v, n)
  OBVIOUS
<1>1. /\ MaxRequests \in Nat \ {0} /\ Window \in Nat \ {0} /\ MaxWait \in 0..(Window - 1)
      /\ Span \in Nat \ {0} /\ Span = Window - MaxWait
  BY LimitAssumption DEF Span
<1>2. /\ DOMAIN v = {"age", "passed"} /\ v.age = w.age
      /\ v.passed = IF w.age < Span THEN w.passed + 1 ELSE w.passed
  BY DEF Counting, SpanOK
<1>3. w.age \in 0..Span /\ w.passed \in Nat /\ (w.age = Span => w.passed = 0)
  BY DEF SpanOK
<1> HIDE DEF v
<1>4. /\ DOMAIN v = {"age", "passed"} /\ v.age \in 0..Span /\ v.passed \in Nat
      /\ v.age = Span => v.passed = 0
  BY <1>1, <1>2, <1>3
<1>5. v.passed <= w.passed + 1
  BY <1>2, <1>3
<1>6. CASE e = NoEntry \/ Elapsed(e.age, wait) >= Window
  <2>1. n.count = 1 /\ n.age = wait
    BY <1>6 DEF CurrentEntry
  <2>2. w.passed <= MaxRequests
    <3>1. CASE e = NoEntry
      BY <3>1 DEF SpanOK
    <3>2. CASE e # NoEntry
      <4>1. e.age \in Nat /\ e.count \in 0..MaxRequests
        BY <1>1, <3>2 DEF EntryOK, OldestAge
      <4>2. e.age - wait >= Window
        BY <1>1, <1>6, <3>2, <4>1 DEF Elapsed
      <4>3. ~(w.age < Span /\ e.age <= w.age + MaxWait)
        BY <1>1, <1>3, <4>1, <4>2
      <4>4. w.passed <= e.count
        BY <3>2, <4>3 DEF SpanOK
      <4> QED
        BY <1>1, <1>3, <4>1, <4>4
    <3> QED
      BY <3>1, <3>2
  <2>3. CASE v.age < Span
    <3>1. n.age <= v.age + MaxWait /\ v.passed <= MaxRequests + n.count
      BY <1>1, <1>2, <1>3, <1>4, <1>5, <2>1, <2>2
    <3> QED
      BY <1>4, <2>3, <3>1 DEF SpanOK
  <2>4. CASE v.age = Span
    <3>1. v.passed <= n.count
      BY <1>4, <2>1, <2>4
    <3> QED
      BY <1>4, <3>1 DEF SpanOK
  <2> QED
    BY <1>1, <1>4, <2>3, <2>4
<1>7. CASE e # NoEntry /\ ~(Elapsed(e.age, wait) >= Window)
  <2>1. n.count = e.count + 1 /\ n.age = e.age
    BY <1>7 DEF CurrentEntry
  <2>2. e.count \in Nat
    BY <1>1, <1>7 DEF EntryOK
  <2>3. CASE w.passed <= e.count
    <3>1. v.passed <= n.count
      BY <1>3, <1>4, <1>5, <2>1, <2>2, <2>3
    <3> QED
      BY <1>4, <3>1 DEF SpanOK
  <2>4. CASE /\ w.age < Span /\ e.age <= w.age + MaxWait
             /\ w.passed <= MaxRequests + e.count
    <3>1. /\ v.age < Span /\ n.age <= v.age + MaxWait
          /\ v.passed <= MaxRequests + n.count
      BY <1>1, <1>2, <1>3, <1>4, <1>5, <2>1, <2>2, <2>4
    <3> QED
      BY <1>4, <3>1 DEF SpanOK
  <2> QED
    BY <1>7, <2>3, <2>4 DEF SpanOK
<1> QED
  BY <1>6, <1>7

\* An entry that is cleaned up is older than any window a span has seen begin.
LEMMA RemovedOK ==
  ASSUME NEW w, NEW e, SpanOK(w, e), e # NoEntry, EntryOK(e), NEW wait \in 0..MaxWait,
         Elapsed(e.age, wait) >= 2 * Window
  PROVE  SpanOK(w, NoEntry)
<1>1. /\ MaxRequests \in Nat \ {0} /\ Window \in Nat \ {0} /\ MaxWait \in 0..(Window - 1)
      /\ Span = Window - MaxWait
  BY LimitAssumption DEF Span
<1>2. w.age \in 0..Span /\ w.passed \in Nat
  BY DEF SpanOK
<1>3. e.age \in Nat /\ e.count \in 0..MaxRequests
  BY <1>1 DEF EntryOK, OldestAge
<1>4. e.age - wait >= 2 * Window
  BY <1>1, <1>3 DEF Elapsed
<1>5. ~(w.age < Span /\ e.age <= w.age + MaxWait)
  BY <1>1, <1>2, <1>3, <1>4
<1>6. w.passed <= e.count
  BY <1>5 DEF SpanOK
<1>7. w.passed <= MaxRequests
  BY <1>1, <1>2, <1>3, <1>6
<1> QED
  BY <1>7 DEF SpanOK
-----------------------------------------------------------------------------
\* The initial states have it.
LEMMA InitIInv == Init => IInv
<1> SUFFICES ASSUME Init PROVE IInv
  OBVIOUS
<1>1. TasksOK /\ EditsCurrent
  BY AwayOK DEF Init, TasksOK, EditsCurrent
<1>2. StoreOK /\ LastOK /\ BrowserOK
  BY DEF Init, StoreOK, LastOK, BrowserOK
<1>3. WatchOK
  <2>1. SpanOK(Over, NoEntry)
    BY LimitAssumption DEF SpanOK, Over, Span
  <2> QED
    BY <2>1 DEF Init, WatchOK
<1> QED
  BY <1>1, <1>2, <1>3 DEF IInv

\* A request that is sent is at the rate limiter, so not yet authorised.
LEMMA AskKeeps ==
  ASSUME IInv, NEW c \in Clients, NEW kind \in Kinds(c), Ask(c, kind)
  PROVE  IInv'
<1> DEFINE t == [pc |-> "limit", kind |-> kind, wait |-> 0,
                 cookie |-> IF kind = "edit" THEN cookie ELSE NoToken,
                 matches |-> kind = "edit" /\ c \in fetched /\ csrfCookie = c]
<1>1. StoreOK' /\ BrowserOK' /\ token' = token /\ WatchOK'
  BY StoreKept, WatchKept DEF Ask, IInv, BrowserOK, browser
<1>2. TaskOK(c, t) /\ Current(t)
  <2>1. /\ DOMAIN t = Fields /\ t.pc = "limit" /\ t.kind = kind /\ t.wait = 0
        /\ t.cookie \in {cookie, NoToken}
    BY DEF Fields
  <2> HIDE DEF t
  <2> QED
    BY <2>1, LimitAssumption DEF TaskOK, Current, Places, IInv, BrowserOK
<1>3. CASE ConnectInfoProvided
  <2>1. task' = [task EXCEPT ![c] = t] /\ last' = [last EXCEPT ![c] = 0]
    BY <1>3 DEF Ask
  <2> HIDE DEF t
  <2>2. TasksOK' /\ EditsCurrent'
    BY <1>1, <1>2, <2>1, OneTask DEF IInv
  <2> QED
    BY <1>1, <2>1, <2>2 DEF IInv, LastOK, Clients
<1>4. CASE ~ConnectInfoProvided
  <2>1. task' = [task EXCEPT ![c] = Away(c)] /\ last' = [last EXCEPT ![c] = 500]
    BY <1>4 DEF Ask
  <2>2. TasksOK' /\ EditsCurrent'
    BY <1>1, <2>1, AwayOK, OneTask DEF IInv
  <2> QED
    BY <1>1, <2>1, <2>2 DEF IInv, LastOK, Clients
<1> QED
  BY <1>3, <1>4

\* A request that is let through and the cleaning up behind it.
LEMMA PassWatched == ASSUME IInv, NEW c \in Clients, Pass(c) PROVE WatchOK'
<1> DEFINE a == AddressOf[c]
           wait == task[c].wait
           entry == CurrentEntry(store[a], wait)
           new == [entry EXCEPT !.count = @ + 1]
           s == [store EXCEPT ![a] = new]
<1>1. a \in Addresses /\ wait \in 0..MaxWait /\ DOMAIN store = Addresses
  BY AddressOK DEF IInv, TasksOK, TaskOK, StoreOK
<1>2. /\ Within(entry) /\ store' = Retained(s, wait)
      /\ watch' = [watch EXCEPT ![a] = Counting(@)]
  BY DEF Pass
<1>3. EntryOK(entry) /\ EntryOK(new)
  BY <1>1, <1>2, Counted DEF IInv
<1>4. /\ DOMAIN new = {"count", "age"}
      /\ new.count = entry.count + 1 /\ new.age = entry.age
  BY <1>3 DEF EntryOK
<1>5. new # NoEntry /\ EntryOK(entry)
  BY <1>3, LimitAssumption, ChangedIsEntry DEF EntryOK
<1>6. Elapsed(new.age, wait) < 2 * Window
  <2>1. entry.age = wait \/ (entry = store[a] /\ Elapsed(entry.age, wait) < Window)
    <3>1. store[a] # NoEntry => Elapsed(store[a].age, wait) \in Nat
      BY <1>1, LimitAssumption DEF IInv, StoreOK, EntryOK, OldestAge, Elapsed
    <3> QED
      BY <3>1, LimitAssumption DEF CurrentEntry
  <2>2. Elapsed(wait, wait) = 0
    BY <1>1, LimitAssumption DEF Elapsed
  <2>3. entry.age \in Nat
    BY <1>3, LimitAssumption DEF EntryOK, OldestAge
  <2> HIDE DEF entry, new
  <2>4. CASE entry.age = wait
    BY <1>4, <2>2, <2>4, LimitAssumption
  <2>5. CASE Elapsed(entry.age, wait) < Window
    <3>1. Elapsed(entry.age, wait) \in Nat
      BY <1>1, <2>3, LimitAssumption DEF Elapsed
    <3> QED
      BY <1>4, <2>5, <3>1, LimitAssumption
  <2> QED
    BY <2>1, <2>4, <2>5
<1>7. SpanOK(watch[a], store[a]) /\ (store[a] # NoEntry => EntryOK(store[a]))
  BY <1>1 DEF IInv, WatchOK, StoreOK
<1>8. SpanOK(Counting(watch[a]), new)
  <2> DEFINE e == store[a]
  <2>1. Within(CurrentEntry(e, wait)) /\ entry = CurrentEntry(e, wait)
    BY <1>2
  <2> HIDE DEF entry, new, wait, e
  <2>2. SpanOK(watch[a], e) /\ (e # NoEntry => EntryOK(e))
    BY <1>7 DEF e
  <2> QED
    BY <1>1, <1>4, <1>5, <2>1, <2>2, CountingOK
<1> HIDE DEF a, wait, entry, new
<1>9. ASSUME NEW b \in Addresses
      PROVE  SpanOK(watch'[b], store'[b])
  <2>1. store'[b] = IF s[b] # NoEntry /\ Elapsed(s[b].age, wait) >= 2 * Window
                    THEN NoEntry ELSE s[b]
    BY <1>2 DEF Retained
  <2>2. watch'[b] = IF b = a THEN Counting(watch[a]) ELSE watch[b]
    BY <1>1, <1>2 DEF IInv, WatchOK
  <2>3. s[b] = IF b = a THEN new ELSE store[b]
    BY <1>1
  <2> HIDE DEF s
  <2>4. CASE b = a
    <3>1. Elapsed(new.age, wait) \in Int
      BY <1>1, <1>3, LimitAssumption DEF Elapsed, EntryOK, OldestAge
    <3>2. ~(Elapsed(new.age, wait) >= 2 * Window)
      BY <1>6, <3>1, LimitAssumption
    <3>3. store'[b] = new
      BY <2>1, <2>3, <2>4, <3>2
    <3> QED
      BY <1>8, <2>2, <2>4, <3>3
  <2>5. CASE b # a
    <3> DEFINE w == watch[b]
               e == store[b]
    <3>1. SpanOK(w, e) /\ (e # NoEntry => EntryOK(e))
      BY DEF IInv, WatchOK, StoreOK
    <3> HIDE DEF w, e
    <3>2. e # NoEntry /\ Elapsed(e.age, wait) >= 2 * Window => SpanOK(w, NoEntry)
      BY <1>1, <3>1, RemovedOK
    <3>3. /\ watch'[b] = w
          /\ store'[b] = IF e # NoEntry /\ Elapsed(e.age, wait) >= 2 * Window
                         THEN NoEntry ELSE e
      BY <2>1, <2>2, <2>3, <2>5 DEF w, e
    <3> QED
      BY <3>1, <3>2, <3>3
  <2> QED
    BY <2>4, <2>5
<1>10. DOMAIN watch' = Addresses
  BY <1>2 DEF IInv, WatchOK
<1>11. \A b \in Addresses : SpanOK(watch[b], store[b])'
  BY <1>9 DEF SpanOK, Span
<1> QED
  BY <1>10, <1>11 DEF WatchOK, Addresses

\* Only page, login and fetch pass the limiter to a handler at once.
LEMMA PassKeeps == ASSUME IInv, NEW c \in Clients, Pass(c) PROVE IInv'
<1> DEFINE a == AddressOf[c]
           wait == task[c].wait
           entry == CurrentEntry(store[a], wait)
           new == [entry EXCEPT !.count = @ + 1]
           s == [store EXCEPT ![a] = new]
           place == NextPlace(task[c].kind)
<1>1. a \in Addresses /\ wait \in 0..MaxWait
  BY AddressOK DEF IInv, TasksOK, TaskOK
<1>2. /\ Within(entry) /\ store' = Retained(s, wait)
      /\ Goes(c, place) /\ token' = token /\ UNCHANGED browser
  BY DEF Pass
<1>3. EntryOK(new)
  BY <1>1, <1>2, Counted DEF IInv
<1>4. place \in Places /\ ~(task[c].kind = "edit" /\ place \in {"csrf", "handle"})
  BY DEF NextPlace, Places
<1> HIDE DEF a, wait, entry, new, place
<1>5. \A b \in Addresses : s[b] # NoEntry => EntryOK(s[b])
  BY <1>1, <1>3 DEF IInv, StoreOK
<1> HIDE DEF s
<1>6. StoreOK'
  BY <1>2, <1>5, RetainedOK
<1>7. TasksOK' /\ EditsCurrent' /\ LastOK'
  BY <1>2, <1>4, Moves
<1>8. WatchOK'
  BY PassWatched DEF IInv
<1> QED
  BY <1>2, <1>6, <1>7, <1>8 DEF IInv, BrowserOK, browser

\* A request is not refused by a window that it begins.
LEMMA RefuseWatched == ASSUME IInv, NEW c \in Clients, Refuse(c) PROVE WatchOK'
<1> DEFINE a == AddressOf[c]
           entry == CurrentEntry(store[a], task[c].wait)
<1>1. /\ a \in Addresses /\ ~Within(entry) /\ UNCHANGED watch
      /\ store' = [store EXCEPT ![a] = entry]
  BY AddressOK DEF Refuse
<1>2. entry = store[a]
  BY <1>1, LimitAssumption DEF CurrentEntry, Within
<1> HIDE DEF a, entry
<1>3. \A b \in Addresses : store'[b] = store[b]
  BY <1>1, <1>2 DEF IInv, StoreOK
<1>4. \A b \in Addresses : SpanOK(watch[b], store[b])'
  BY <1>1, <1>3 DEF IInv, WatchOK, SpanOK, Span
<1> QED
  BY <1>1, <1>4 DEF IInv, WatchOK, Addresses

\* A refused request leaves the entry it was compared with.
LEMMA RefuseKeeps == ASSUME IInv, NEW c \in Clients, Refuse(c) PROVE IInv'
<1> DEFINE a == AddressOf[c]
           wait == task[c].wait
           entry == CurrentEntry(store[a], wait)
<1>1. a \in Addresses /\ wait \in 0..MaxWait
  BY AddressOK DEF IInv, TasksOK, TaskOK
<1>2. store' = [store EXCEPT ![a] = entry] /\ Answer(c, 429) /\ token' = token
      /\ UNCHANGED browser
  BY DEF Refuse
<1>3. EntryOK(entry)
  BY <1>1, Counted DEF IInv
<1> HIDE DEF a, wait, entry
<1>4. \A b \in Addresses : store'[b] # NoEntry => EntryOK(store'[b])
  BY <1>1, <1>2, <1>3 DEF IInv, StoreOK
<1>5. StoreOK'
  BY <1>2, <1>4 DEF IInv, StoreOK, EntryOK, Addresses, OldestAge
<1>6. TasksOK' /\ EditsCurrent' /\ LastOK'
  BY <1>2, Answers
<1>7. WatchOK'
  BY RefuseWatched DEF IInv
<1> QED
  BY <1>2, <1>5, <1>6, <1>7 DEF IInv, BrowserOK, browser

\* Authentication compares with the configuration whose guard it then holds.
LEMMA AuthoriseKeeps == ASSUME IInv, NEW c \in Clients, Authorise(c) PROVE IInv'
<1>1. StoreOK' /\ WatchOK' /\ BrowserOK' /\ token' = token
  BY StoreKept, WatchKept DEF Authorise, IInv, BrowserOK, browser
<1>2. CASE token # NoToken /\ task[c].cookie = token
  <2>1. Goes(c, "csrf") /\ "csrf" \in Places
    BY <1>2 DEF Authorise, Places
  <2> QED
    BY <1>1, <1>2, <2>1, Moves DEF IInv
<1>3. CASE ~(token # NoToken /\ task[c].cookie = token)
  BY <1>1, <1>3, Answers DEF Authorise, IInv
<1> QED
  BY <1>2, <1>3

\* The CSRF check passes on a request that authentication has passed.
LEMMA CheckCsrfKeeps == ASSUME IInv, NEW c \in Clients, CheckCsrf(c) PROVE IInv'
<1>1. StoreOK' /\ WatchOK' /\ BrowserOK' /\ token' = token
  BY StoreKept, WatchKept DEF CheckCsrf, IInv, BrowserOK, browser
<1>2. CASE Goes(c, "handle")
  <2>1. "handle" \in Places
    BY DEF Places
  <2>2. task[c].kind = "edit" => token # NoToken /\ task[c].cookie = token
    BY DEF CheckCsrf, IInv, EditsCurrent, Current
  <2> QED
    BY <1>1, <1>2, <2>1, <2>2, Moves DEF IInv
<1>3. CASE Answer(c, 403)
  BY <1>1, <1>3, Answers DEF IInv
<1> QED
  BY <1>2, <1>3 DEF CheckCsrf

\* The handlers answer; login and get_csrf_token set the browser's cookies too.
LEMMA HandlersKeep ==
  ASSUME IInv, NEW c \in Clients,
         HandleEdit(c) \/ HandlePage(c) \/ Login(c) \/ FetchCsrf(c)
  PROVE  IInv'
<1>1. StoreOK' /\ WatchOK' /\ token' = token
  BY StoreKept, WatchKept DEF HandleEdit, HandlePage, Login, FetchCsrf, IInv
<1>2. \E status \in {200, 202, 403, 429, 500} : Answer(c, status)
  BY DEF HandleEdit, HandlePage, Login, FetchCsrf
<1>3. BrowserOK'
  <2>1. CASE HandleEdit(c) \/ HandlePage(c)
    BY <2>1 DEF HandleEdit, HandlePage, IInv, BrowserOK, browser
  <2>2. CASE Login(c)
    BY <2>2 DEF Login, IInv, BrowserOK
  <2>3. CASE FetchCsrf(c)
    <3>1. task[c].kind = "fetch" /\ task[c].kind \in Kinds(c)
      BY <2>3 DEF FetchCsrf, IInv, TasksOK, TaskOK
    <3>2. c \in Tabs
      BY <3>1 DEF Kinds
    <3> QED
      BY <2>3, <3>2 DEF FetchCsrf, IInv, BrowserOK
  <2> QED
    BY <2>1, <2>2, <2>3
<1> QED
  BY <1>1, <1>2, <1>3, Answers DEF IInv

\* A reload changes the token when no authorised edit is on its way.
LEMMA ReloadKeeps == ASSUME IInv, Reload PROVE IInv'
<1>1. StoreOK' /\ WatchOK' /\ LastOK' /\ BrowserOK'
  BY StoreKept, WatchKept DEF Reload, IInv, LastOK, BrowserOK, browser, Clients
<1>2. TasksOK'
  BY DEF Reload, IInv, TasksOK, TaskOK, Clients, Kinds
<1>3. \A c \in Clients : ~(task[c].kind = "edit" /\ task[c].pc \in {"csrf", "handle"})
  BY DEF Reload, Readers
<1>4. EditsCurrent'
  BY <1>3 DEF Reload, EditsCurrent, Current, Clients
<1> QED
  BY <1>1, <1>2, <1>4 DEF IInv

\* An age grows by one, up to the bound.
LEMMA OlderOK ==
  ASSUME NEW age \in 0..OldestAge
  PROVE  Older(age) \in 0..OldestAge /\ Older(age) <= age + 1
<1>1. OldestAge \in Nat
  BY LimitAssumption DEF OldestAge
<1> DEFINE S == {age + 1, OldestAge}
           least == IF age + 1 <= OldestAge THEN age + 1 ELSE OldestAge
<1>2. least \in S /\ \A x \in S : least <= x
  BY <1>1
<1>3. Older(age) \in S /\ \A x \in S : Older(age) <= x
  BY <1>2 DEF Older, Min
<1> QED
  BY <1>1, <1>3

\* A request that waits one tick more is the same request.
LEMMA WaitedOK ==
  ASSUME NEW c, NEW t, TaskOK(c, t), Current(t), t.wait < MaxWait
  PROVE  LET waited == [t EXCEPT !.wait = @ + 1]
         IN  TaskOK(c, waited) /\ Current(waited)
BY LimitAssumption DEF TaskOK, Current, Fields

\* An entry grown older is an entry.
LEMMA AgedOK ==
  ASSUME NEW e, EntryOK(e) PROVE EntryOK([e EXCEPT !.age = Older(@)])
<1>1. Older(e.age) \in 0..OldestAge
  BY OlderOK DEF EntryOK
<1> QED
  BY <1>1 DEF EntryOK

\* A span and the window in it grow older together.
LEMMA SpanAges ==
  ASSUME NEW w, NEW e, SpanOK(w, e), e # NoEntry => EntryOK(e),
         NEW v, v = IF w.age + 1 < Span THEN [w EXCEPT !.age = @ + 1] ELSE Over,
         NEW n, n = IF e = NoEntry THEN NoEntry ELSE [e EXCEPT !.age = Older(@)]
  PROVE  SpanOK(v, n)
<1>1. /\ MaxRequests \in Nat \ {0} /\ Span \in Nat \ {0} /\ MaxWait \in Nat
  BY LimitAssumption DEF Span
<1>2. w.age \in 0..Span /\ w.passed \in Nat /\ DOMAIN w = {"age", "passed"}
  BY DEF SpanOK
<1>3. CASE e # NoEntry
  <2>1. e.age \in 0..OldestAge /\ e.count \in 0..MaxRequests /\ OldestAge \in Nat
    BY <1>3, LimitAssumption DEF EntryOK, OldestAge
  <2>2. Older(e.age) \in 0..OldestAge /\ Older(e.age) <= e.age + 1
    BY <2>1, OlderOK
  <2>3. n # NoEntry
    BY <1>3, <2>1, <2>2, ChangedIsEntry
  <2>4. n.count = e.count /\ n.age = Older(e.age)
    BY <1>3 DEF EntryOK
  <2>5. n.age <= e.age + 1 /\ n.age \in Nat
    BY <2>1, <2>2, <2>4
  <2>6. CASE w.age + 1 < Span
    <3>1. v.age = w.age + 1 /\ v.passed = w.passed /\ DOMAIN v = {"age", "passed"}
      BY <1>2, <2>6
    <3>2. \/ v.passed <= n.count
          \/ n.age <= v.age + MaxWait /\ v.passed <= MaxRequests + n.count
      <4>1. \/ w.passed <= e.count
            \/ e.age <= w.age + MaxWait /\ w.passed <= MaxRequests + e.count
        BY <1>3 DEF SpanOK
      <4> QED
        BY <1>1, <1>2, <2>1, <2>4, <2>5, <3>1, <4>1
    <3> QED
      BY <1>1, <1>2, <2>3, <2>6, <3>1, <3>2 DEF SpanOK
  <2>7. CASE ~(w.age + 1 < Span)
    <3>1. v.age = Span /\ v.passed = 0 /\ DOMAIN v = {"age", "passed"}
      BY <2>7 DEF Over
    <3> QED
      BY <1>1, <2>1, <2>3, <2>4, <3>1 DEF SpanOK
  <2> QED
    BY <2>6, <2>7
<1>4. CASE e = NoEntry
  <2>1. w.passed <= MaxRequests /\ n = NoEntry
    BY <1>4 DEF SpanOK
  <2>2. \/ v = Over
        \/ /\ w.age + 1 < Span /\ v.age = w.age + 1 /\ v.passed = w.passed
           /\ DOMAIN v = {"age", "passed"}
    BY <1>2
  <2>3. Over.age = Span /\ Over.passed = 0 /\ DOMAIN Over = {"age", "passed"}
    BY DEF Over
  <2> QED
    BY <1>1, <1>2, <2>1, <2>2, <2>3 DEF SpanOK
<1> QED
  BY <1>3, <1>4

\* Time passes for the store and the spans.
LEMMA TickWatched == ASSUME IInv, Tick PROVE WatchOK'
<1>1. ASSUME NEW a \in Addresses PROVE SpanOK(watch'[a], store'[a])
  <2> DEFINE w == watch[a]
             e == store[a]
             v == watch'[a]
             n == store'[a]
  <2>1. SpanOK(w, e) /\ (e # NoEntry => EntryOK(e))
    BY DEF IInv, WatchOK, StoreOK
  <2>2. /\ v = IF w.age + 1 < Span THEN [w EXCEPT !.age = @ + 1] ELSE Over
        /\ n = IF e = NoEntry THEN NoEntry ELSE [e EXCEPT !.age = Older(@)]
    BY DEF Tick
  <2> SUFFICES SpanOK(v, n)
    OBVIOUS
  <2> HIDE DEF w, e, v, n
  <2> QED
    BY <2>1, <2>2, SpanAges
<1>2. DOMAIN watch' = Addresses
  BY DEF Tick
<1>3. \A a \in Addresses : SpanOK(watch[a], store[a])'
  BY <1>1 DEF SpanOK, Span
<1> QED
  BY <1>2, <1>3 DEF WatchOK, Addresses

\* Somebody begins to watch.
LEMMA WatchKeeps == ASSUME IInv, NEW a \in Addresses, Watch(a) PROVE IInv'
<1>1. UNCHANGED <<store, task, last, token, browser>>
  BY DEF Watch
<1>2. TasksOK' /\ EditsCurrent' /\ LastOK' /\ BrowserOK' /\ StoreOK'
  BY <1>1, StoreKept DEF IInv, TasksOK, EditsCurrent, LastOK, BrowserOK, browser,
     TaskOK, Current, Clients, Kinds
<1>3. \A b \in Addresses : store[b] # NoEntry => store[b].count \in Nat
  BY LimitAssumption DEF IInv, StoreOK, EntryOK
<1>4. SpanOK([age |-> 0, passed |-> 0], store[a])
  BY <1>3, LimitAssumption DEF SpanOK, Span
<1>5. \A b \in Addresses : SpanOK(watch'[b], store'[b])
  BY <1>1, <1>4 DEF Watch, IInv, WatchOK
<1>6. DOMAIN watch' = Addresses
  BY DEF Watch, IInv, WatchOK
<1>7. \A b \in Addresses : SpanOK(watch[b], store[b])'
  BY <1>5 DEF SpanOK, Span
<1>8. WatchOK'
  BY <1>6, <1>7 DEF WatchOK, Addresses
<1> QED
  BY <1>2, <1>8 DEF IInv

\* Time passes.
LEMMA TickKeeps == ASSUME IInv, Tick PROVE IInv'
<1>1. LastOK' /\ BrowserOK' /\ token' = token
  BY DEF Tick, IInv, LastOK, BrowserOK, browser, Clients
<1>2. \A c \in Clients : TaskOK(c, task'[c]) /\ Current(task'[c])
  <2> SUFFICES ASSUME NEW c \in Clients PROVE TaskOK(c, task'[c]) /\ Current(task'[c])
    OBVIOUS
  <2> DEFINE waited == [task[c] EXCEPT !.wait = @ + 1]
  <2>1. TaskOK(c, task[c]) /\ Current(task[c])
    BY DEF IInv, TasksOK, EditsCurrent
  <2>2. task'[c] = IF task[c].pc = "limit" THEN waited ELSE task[c]
    BY DEF Tick
  <2>3. task[c].pc = "limit" => task[c].wait < MaxWait
    BY DEF Tick
  <2>4. task[c].pc = "limit" => TaskOK(c, waited) /\ Current(waited)
    BY <2>1, <2>3, WaitedOK
  <2> HIDE DEF waited
  <2> QED
    BY <2>1, <2>2, <2>4
<1>3. DOMAIN task' = Clients
  BY DEF Tick
<1>4. \A c \in Clients : TaskOK(c, task[c])' /\ Current(task[c])'
  BY <1>1, <1>2 DEF TaskOK, Current, Kinds
<1>5. TasksOK' /\ EditsCurrent'
  BY <1>3, <1>4 DEF TasksOK, EditsCurrent, Clients
<1>6. \A a \in Addresses : store'[a] # NoEntry => EntryOK(store'[a])
  <2> SUFFICES ASSUME NEW a \in Addresses, store'[a] # NoEntry PROVE EntryOK(store'[a])
    OBVIOUS
  <2> DEFINE aged == [store[a] EXCEPT !.age = Older(@)]
  <2>1. store[a] # NoEntry /\ store'[a] = aged
    BY DEF Tick
  <2>2. EntryOK(aged)
    BY <2>1, AgedOK DEF IInv, StoreOK
  <2> QED
    BY <2>1, <2>2
<1>7. DOMAIN store' = Addresses
  BY DEF Tick
<1>8. StoreOK'
  BY <1>6, <1>7 DEF StoreOK, EntryOK, Addresses, OldestAge
<1>9. WatchOK'
  BY TickWatched DEF IInv
<1> QED
  BY <1>1, <1>5, <1>8, <1>9 DEF IInv

\* Nothing else happens.
LEMMA StutterKeeps == IInv /\ UNCHANGED vars => IInv'
BY StoreKept, WatchKept DEF IInv, TasksOK, EditsCurrent, LastOK, BrowserOK, vars, browser,
   TaskOK, Current, Clients, Kinds

\* The invariant is inductive.
LEMMA NextIInv == IInv /\ [Next]_vars => IInv'
<1> SUFFICES ASSUME IInv, [Next]_vars PROVE IInv'
  OBVIOUS
<1>1. CASE \E c \in Clients : \E kind \in Kinds(c) : Ask(c, kind)
  BY <1>1, AskKeeps
<1>2. ASSUME NEW c \in Clients, Step(c) PROVE IInv'
  BY <1>2, PassKeeps, RefuseKeeps, AuthoriseKeeps, CheckCsrfKeeps, HandlersKeep DEF Step
<1>3. CASE Reload \/ Tick \/ \E a \in Addresses : Watch(a)
  BY <1>3, ReloadKeeps, TickKeeps, WatchKeeps
<1>4. CASE UNCHANGED vars
  BY <1>4, StutterKeeps
<1> QED
  BY <1>1, <1>2, <1>3, <1>4 DEF Next

\* It holds of every reachable state.
LEMMA Invariant == Spec => []IInv
BY InitIInv, NextIInv, PTL DEF Spec

\* Tasks, entries, answers and cookies keep their types for any number of
\* clients, any limit and any window.
THEOREM TypeCorrect == Spec => []TypeOK
<1>1. IInv => TypeOK
  BY DEF IInv, TypeOK, TasksOK, TaskOK, StoreOK, EntryOK, LastOK, BrowserOK, Places
<1> QED
  BY <1>1, Invariant, PTL

\* An edit is handled under the admin token it was authorised by, whatever
\* reloads, logins and other requests come between (admin_auth.rs:37-49).
THEOREM EditsAuthorised == Spec => []HandlersRunUnderCurrentToken
<1>1. IInv => HandlersRunUnderCurrentToken
  BY DEF IInv, EditsCurrent, Current, HandlersRunUnderCurrentToken
<1> QED
  BY <1>1, Invariant, PTL

\* At most twice the limit is let through from an address in any span as long as
\* the window less the longest wait, for any limit, window and wait and any number
\* of clients (rate_limit.rs:59-99).
THEOREM BurstsBounded == Spec => []BurstBounded
<1>1. IInv => BurstBounded
  <2> SUFFICES ASSUME IInv, NEW a \in Addresses
               PROVE  watch[a].passed <= 2 * MaxRequests
    BY DEF BurstBounded
  <2>1. SpanOK(watch[a], store[a]) /\ (store[a] # NoEntry => EntryOK(store[a]))
    BY DEF IInv, WatchOK, StoreOK
  <2> QED
    BY <2>1, LimitAssumption DEF SpanOK, EntryOK
<1> QED
  BY <1>1, Invariant, PTL
=============================================================================
