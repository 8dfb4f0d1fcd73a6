-------------------------- MODULE ConfigReload_proofs --------------------------
(***************************************************************************)
(* Proofs about ConfigReload, for any number of tasks and any capacity of  *)
(* the channel.  First the three fair locks: who stands in which queue     *)
(* follows from the labels of the tasks, and only the entry of the await a *)
(* task stands at may have to wait.  From it: a health report speaks of    *)
(* one configuration, and every deadlock involves an admin request.  Then  *)
(* the update itself: what is swapped in was validated and saved, and no   *)
(* update is skipped.                                                      *)
(***************************************************************************)
EXTENDS ConfigReload, FiniteSetTheorems, WellFoundedInduction, TLAPS

\* What an entry made at an await is for, and at which labels its task has it.
LockOf(await) ==
  CASE await \in {"route", "describe", "authorise", "clone", "check", "lockConfig"}
         -> "config"
    [] await \in {"connect", "lockClients"} -> "clients"
    [] await \in {"select", "report", "summarise", "lockKeys"} -> "keys"
    [] OTHER -> "none"

ModeOf(await) ==
  IF await \in {"report", "lockConfig", "lockClients", "lockKeys"}
  THEN "write" ELSE "read"

Kept(await) ==
  CASE await = "authorise"   -> {"authorise", "clone", "broadcast"}
    [] await = "summarise"   -> {"summarise", "describe"}
    [] await = "lockConfig"  -> {"lockConfig", "lockClients", "lockKeys", "swap"}
    [] await = "lockClients" -> {"lockClients", "lockKeys", "swap"}
    [] await = "lockKeys"    -> {"lockKeys", "swap"}
    [] OTHER                 -> {await}

\* Where the code of each kind of task may stand.
ProxyLabels   == {"away", "route", "select", "connect", "send", "report"}
WatcherLabels == {"away", "summarise", "describe"}
EditorLabels  == {"away", "authorise", "clone", "broadcast", "done"}
WorkerLabels  == {"receive", "check", "save", "build", "lockConfig", "lockClients",
                  "lockKeys", "swap", "ended"}

RolesOK ==
  /\ pc \in [Tasks -> Labels]
  /\ \A p \in Proxies  : pc[p] \in ProxyLabels
  /\ \A w \in Watchers : pc[w] \in WatcherLabels
  /\ \A e \in Editors  : pc[e] \in EditorLabels
  /\ pc[Worker] \in WorkerLabels

\* The entry e stands in the queue of the lock.
Due(lock, e) ==
  LockOf(e.at) = lock /\ e.mode = ModeOf(e.at) /\ pc[e.task] \in Kept(e.at)

\* A queue is a queue: whoever is ahead of one that is ahead is ahead, and of
\* two entries one is ahead of the other.
Ordered(q) ==
  /\ IsFiniteSet(DOMAIN q)
  /\ q \in [DOMAIN q -> SUBSET DOMAIN q]
  /\ \A x, y \in DOMAIN q : y \in q[x] => q[y] \subseteq q[x]
  /\ \A x, y \in DOMAIN q : x = y \/ x \in q[y] \/ y \in q[x]
  /\ \A x \in DOMAIN q : x \notin q[x]

\* Only the entry of the await a task stands at may have to wait.
QueueInv ==
  /\ DOMAIN queue = Locks
  /\ \A l \in Locks :
       /\ Ordered(queue[l])
       /\ DOMAIN queue[l] = {e \in Entries : Due(l, e)}
       /\ \A e \in DOMAIN queue[l] :
            e.at # pc[e.task] => Granted(queue[l], e)
LockInv == RolesOK /\ QueueInv
-----------------------------------------------------------------------------
\* Asking for a lock: the new entry is behind all others, which notice nothing.
LEMMA AskOK ==
  ASSUME NEW q, Ordered(q), NEW e, e \notin DOMAIN q
  PROVE  /\ Ordered(Ask(q, e)) /\ DOMAIN Ask(q, e) = DOMAIN q \cup {e}
         /\ Ask(q, e)[e] = DOMAIN q
         /\ \A x \in DOMAIN q : Ask(q, e)[x] = q[x]
<1> DEFINE r == Ask(q, e)
<1>1. /\ DOMAIN r = DOMAIN q \cup {e} /\ r[e] = DOMAIN q
      /\ \A x \in DOMAIN q : r[x] = q[x]
  BY DEF Ask
<1>2. r \in [DOMAIN r -> SUBSET DOMAIN r]
  <2>1. r = [x \in DOMAIN q \cup {e} |-> IF x = e THEN DOMAIN q ELSE q[x]]
    BY DEF Ask
  <2>2. \A x \in DOMAIN q \cup {e} : r[x] \in SUBSET (DOMAIN q \cup {e})
    BY <1>1 DEF Ordered
  <2> HIDE DEF r
  <2>3. QED
    BY <1>1, <2>1, <2>2
<1>3. IsFiniteSet(DOMAIN r)
  BY <1>1, FS_AddElement DEF Ordered
<1> HIDE DEF r
<1>4. \A x, y \in DOMAIN r : y \in r[x] => r[y] \subseteq r[x]
  BY <1>1 DEF Ordered
<1>5. \A x, y \in DOMAIN r : x = y \/ x \in r[y] \/ y \in r[x]
  BY <1>1 DEF Ordered
<1>6. \A x \in DOMAIN r : x \notin r[x]
  BY <1>1 DEF Ordered
<1>7. Ordered(r)
  BY <1>2, <1>3, <1>4, <1>5, <1>6 DEF Ordered
<1>8. QED
  BY <1>1, <1>7 DEF r

\* Entries that go leave the order of the others as it was.
LEMMA DropOK ==
  ASSUME NEW q, Ordered(q), NEW gone
  PROVE  /\ Ordered(Drop(q, gone)) /\ DOMAIN Drop(q, gone) = DOMAIN q \ gone
         /\ \A x \in DOMAIN q \ gone : Drop(q, gone)[x] = q[x] \ gone
<1> DEFINE r == Drop(q, gone)
<1>1. DOMAIN r = DOMAIN q \ gone /\ \A x \in DOMAIN q \ gone : r[x] = q[x] \ gone
  BY DEF Drop
<1>2. r \in [DOMAIN r -> SUBSET DOMAIN r]
  <2>1. r = [x \in DOMAIN q \ gone |-> q[x] \ gone]
    BY DEF Drop
  <2>2. \A x \in DOMAIN q \ gone : r[x] \in SUBSET (DOMAIN q \ gone)
    BY <1>1 DEF Ordered
  <2> HIDE DEF r
  <2>3. QED
    BY <1>1, <2>1, <2>2
<1>3. IsFiniteSet(DOMAIN r)
  BY <1>1, FS_Subset DEF Ordered
<1> HIDE DEF r
<1>4. \A x, y \in DOMAIN r : y \in r[x] => r[y] \subseteq r[x]
  BY <1>1 DEF Ordered
<1>5. \A x, y \in DOMAIN r : x = y \/ x \in r[y] \/ y \in r[x]
  BY <1>1 DEF Ordered
<1>6. \A x \in DOMAIN r : x \notin r[x]
  BY <1>1 DEF Ordered
<1>7. Ordered(r)
  BY <1>2, <1>3, <1>4, <1>5, <1>6 DEF Ordered
<1>8. QED
  BY <1>1, <1>7 DEF r

\* What a task may do to a queue in one step: nothing, drop entries of its own,
\* or ask.
TurnAt(q, r, t) ==
  \/ r = q
  \/ \E gone \in SUBSET EntriesOf(q, t) : r = Drop(q, gone)
  \/ \E e : e.task = t /\ e \notin DOMAIN q /\ r = Ask(q, e)

\* The others keep their entries, and what was granted to them stays granted.
LEMMA TurnKeepsOthers ==
  ASSUME NEW q, NEW r, NEW t, Ordered(q), TurnAt(q, r, t)
  PROVE  /\ Ordered(r)
         /\ \A e : e.task # t => (e \in DOMAIN r <=> e \in DOMAIN q)
         /\ \A e \in DOMAIN q \cap DOMAIN r : Granted(q, e) => Granted(r, e)
<1>1. CASE r = q
  BY <1>1
<1>2. CASE \E gone \in SUBSET EntriesOf(q, t) : r = Drop(q, gone)
  <2>1. PICK gone \in SUBSET EntriesOf(q, t) : r = Drop(q, gone)
    BY <1>2
  <2>2. /\ Ordered(r) /\ DOMAIN r = DOMAIN q \ gone
        /\ \A x \in DOMAIN q \ gone : r[x] = q[x] \ gone
    <3>1. /\ Ordered(Drop(q, gone)) /\ DOMAIN Drop(q, gone) = DOMAIN q \ gone
          /\ \A x \in DOMAIN q \ gone : Drop(q, gone)[x] = q[x] \ gone
      BY DropOK
    <3>2. QED
      BY <2>1, <3>1
  <2>3. \A e : e.task # t => (e \in DOMAIN r <=> e \in DOMAIN q)
    BY <2>1, <2>2 DEF EntriesOf
  <2>4. \A e \in DOMAIN q \cap DOMAIN r : r[e] \subseteq q[e]
    BY <2>2
  <2>5. QED
    BY <2>2, <2>3, <2>4 DEF Granted, Blockers
<1>3. CASE \E e : e.task = t /\ e \notin DOMAIN q /\ r = Ask(q, e)
  <2>1. PICK f : f.task = t /\ f \notin DOMAIN q /\ r = Ask(q, f)
    BY <1>3
  <2>2. /\ Ordered(r) /\ DOMAIN r = DOMAIN q \cup {f}
        /\ \A x \in DOMAIN q : r[x] = q[x]
    <3>1. /\ Ordered(Ask(q, f)) /\ DOMAIN Ask(q, f) = DOMAIN q \cup {f}
          /\ \A x \in DOMAIN q : Ask(q, f)[x] = q[x]
      BY <2>1, AskOK
    <3>2. QED
      BY <2>1, <3>1
  <2>3. \A e : e.task # t => (e \in DOMAIN r <=> e \in DOMAIN q)
    BY <2>1, <2>2
  <2>4. \A e \in DOMAIN q \cap DOMAIN r : r[e] \subseteq q[e]
    BY <2>2
  <2>5. QED
    BY <2>2, <2>3, <2>4 DEF Granted, Blockers
<1>4. QED
  BY <1>1, <1>2, <1>3 DEF TurnAt

\* A step of the task t keeps the queues in order when it leaves t the entries
\* that are due at its new label, and only the one it asks for may wait.
LEMMA TurnKeepsQueues ==
  ASSUME LockInv, NEW t \in Tasks, NEW label, Goes(t, label), RolesOK',
         DOMAIN queue' = Locks,
         \A l \in Locks : TurnAt(queue[l], queue'[l], t),
         \A l \in Locks, e \in Entries :
           e.task = t => (e \in DOMAIN queue'[l] <=> Due(l, e)'),
         \A l \in Locks : DOMAIN queue'[l] \subseteq Entries,
         \A l \in Locks : \A e \in DOMAIN queue'[l] :
           e.task = t /\ e.at # label =>
             e \in DOMAIN queue[l] /\ Granted(queue[l], e)
  PROVE  LockInv'
<1>1. \A u \in Tasks : pc'[u] = IF u = t THEN label ELSE pc[u]
  BY DEF LockInv, RolesOK, Goes
<1>2. \A l \in Locks : /\ Ordered(queue'[l])
                       /\ \A e : e.task # t => (e \in DOMAIN queue'[l]
                                                <=> e \in DOMAIN queue[l])
                       /\ \A e \in DOMAIN queue[l] \cap DOMAIN queue'[l] :
                            Granted(queue[l], e) => Granted(queue'[l], e)
  BY TurnKeepsOthers DEF LockInv, QueueInv
<1>3. ASSUME NEW l \in Locks
      PROVE  DOMAIN queue'[l] = {e \in Entries : Due(l, e)'}
  <2>1. ASSUME NEW e \in Entries, e.task # t
        PROVE  e \in DOMAIN queue'[l] <=> Due(l, e)'
    <3>1. e.task \in Tasks
      BY DEF Entries
    <3>2. Due(l, e)' <=> Due(l, e)
      BY <1>1, <2>1, <3>1 DEF Due
    <3>3. QED
      BY <1>2, <2>1, <3>2 DEF LockInv, QueueInv
  <2>2. QED
    BY <2>1
<1>4. ASSUME NEW l \in Locks, NEW e \in DOMAIN queue'[l], e.at # pc'[e.task]
      PROVE  Granted(queue'[l], e)
  <2>1. e.task \in Tasks
    BY DEF Entries
  <2>2. e \in DOMAIN queue[l] /\ Granted(queue[l], e)
    BY <1>1, <1>2, <1>4, <2>1 DEF LockInv, QueueInv
  <2>3. QED
    BY <1>2, <2>2
<1>5. QueueInv'
  BY <1>2, <1>3, <1>4 DEF QueueInv
<1>6. QED
  BY <1>5 DEF LockInv
-----------------------------------------------------------------------------
\* A task of each kind stays within its code.
LEMMA RolesKept ==
  ASSUME RolesOK, NEW t \in Tasks, NEW label \in Labels, Goes(t, label),
         t \in Proxies => label \in ProxyLabels,
         t \in Watchers => label \in WatcherLabels,
         t \in Editors => label \in EditorLabels,
         t = Worker => label \in WorkerLabels
  PROVE  RolesOK'
<1>1. \A u \in Tasks : pc'[u] = IF u = t THEN label ELSE pc[u]
  BY DEF RolesOK, Goes
<1>2. pc' \in [Tasks -> Labels]
  BY DEF RolesOK, Goes
<1>3. QED
  BY <1>1, <1>2 DEF RolesOK, Tasks, Requests

\* Every guard that t stands in a queue for is its own.
AllGranted(t) ==
  \A l \in Locks : \A e \in EntriesOf(queue[l], t) : Granted(queue[l], e)

\* That is so when it does not wait at the await it stands at.
LEMMA Through ==
  ASSUME LockInv, NEW t \in Tasks,
         LockOf(pc[t]) \in Locks => ~Waits(queue[LockOf(pc[t])], t)
  PROVE  AllGranted(t)
<1> SUFFICES ASSUME NEW l \in Locks, NEW e \in EntriesOf(queue[l], t)
             PROVE  Granted(queue[l], e)
  BY DEF AllGranted
<1>1. e \in DOMAIN queue[l] /\ e.task = t
  BY DEF EntriesOf
<1>2. CASE e.at = pc[t]
  <2>1. LockOf(pc[t]) = l
    BY <1>1, <1>2 DEF LockInv, QueueInv, Due
  <2>2. QED
    BY <1>1, <2>1 DEF Waits, EntriesOf
<1>3. CASE e.at # pc[t]
  BY <1>1, <1>3 DEF LockInv, QueueInv
<1>4. QED
  BY <1>2, <1>3

\* On the way from one label to the next a task drops its guards on the locks.
Frees(from, to, locks) ==
  \A await \in Labels :
    LockOf(await) \in Locks =>
      (to \in Kept(await) <=> from \in Kept(await) /\ LockOf(await) \notin locks)

\* It drops them and asks for the lock that the next label awaits.
Asks(from, to, locks) ==
  /\ LockOf(to) \in Locks \ locks /\ from \notin Kept(to)
  /\ \A await \in Labels :
       LockOf(await) \in Locks =>
         (to \in Kept(await) <=> \/ from \in Kept(await) /\ LockOf(await) \notin locks
                                \/ await = to)

EntryFor(t, await) == [task |-> t, mode |-> ModeOf(await), at |-> await]

\* t stands at the label and waits for nothing.
Stands(t, label) ==
  pc[t] = label /\ (LockOf(label) \in Locks => ~Waits(queue[LockOf(label)], t))

\* t drops its guards on some locks, on all of them if it still waits for one.
LEMMA FreeStep ==
  ASSUME LockInv, NEW t \in Tasks, NEW label, Goes(t, label), RolesOK',
         NEW locks \in SUBSET Locks,
         queue' = Freed(t, locks) \/ (locks = {} /\ queue' = queue),
         NEW from, pc[t] = from, Frees(from, label, locks),
         locks = Locks \/ Stands(t, from)
  PROVE  LockInv'
<1>0. \A l \in Locks : \A e \in Entries :
        e.task = t => (Due(l, e)' <=> Due(l, e) /\ l \notin locks)
  <2>1. pc'[t] = label
    BY DEF Goes, LockInv, RolesOK
  <2>2. \A e \in Entries : e.at \in Labels
    BY DEF Entries
  <2>3. QED
    BY <2>1, <2>2 DEF Due, Frees
<1>1. ASSUME NEW l \in Locks
      PROVE  queue'[l] = IF l \in locks
                         THEN Drop(queue[l], EntriesOf(queue[l], t))
                         ELSE queue[l]
  BY DEF Freed
<1>2. DOMAIN queue' = Locks
  BY DEF Freed, LockInv, QueueInv
<1>3. ASSUME NEW l \in Locks
      PROVE  /\ TurnAt(queue[l], queue'[l], t)
             /\ \A e : e \in DOMAIN queue'[l] <=>
                         e \in DOMAIN queue[l] /\ ~(l \in locks /\ e.task = t)
  <2>1. CASE l \in locks
    <3>1. DOMAIN Drop(queue[l], EntriesOf(queue[l], t))
            = DOMAIN queue[l] \ EntriesOf(queue[l], t)
      BY DEF Drop
    <3>2. queue'[l] = Drop(queue[l], EntriesOf(queue[l], t))
      BY <1>1, <2>1
    <3>3. TurnAt(queue[l], queue'[l], t)
      BY <3>2 DEF TurnAt
    <3>4. QED
      BY <2>1, <3>1, <3>2, <3>3 DEF EntriesOf
  <2>2. CASE l \notin locks
    BY <1>1, <2>2 DEF TurnAt
  <2>3. QED
    BY <2>1, <2>2
<1>4. \A l \in Locks : DOMAIN queue[l] = {e \in Entries : Due(l, e)}
  BY DEF LockInv, QueueInv
<1>5. \A l \in Locks : \A e \in DOMAIN queue'[l] :
        e.task = t => e \in DOMAIN queue[l] /\ Granted(queue[l], e)
  <2>1. locks = Locks \/ AllGranted(t)
    BY Through DEF Stands
  <2>2. QED
    BY <1>3, <2>1 DEF AllGranted, EntriesOf
<1>6. \A l \in Locks : DOMAIN queue'[l] \subseteq Entries
  BY <1>3, <1>4
<1>7. \A l \in Locks, e \in Entries :
        e.task = t => (e \in DOMAIN queue'[l] <=> Due(l, e)')
  BY <1>0, <1>3, <1>4
<1>8. QED
  BY <1>2, <1>3, <1>5, <1>6, <1>7, TurnKeepsQueues

\* t, that waits for nothing, drops its guards on some locks and asks for another.
LEMMA AskStep ==
  ASSUME LockInv, NEW t \in Tasks, NEW label, Goes(t, label), RolesOK',
         label \in Labels,
         NEW from, Stands(t, from), NEW locks \in SUBSET Locks, Asks(from, label, locks),
         \/ queue' = Asked(Freed(t, locks), LockOf(label), EntryFor(t, label))
         \/ locks = {} /\ queue' = Asked(queue, LockOf(label), EntryFor(t, label))
  PROVE  LockInv'
<1> DEFINE lock == LockOf(label)
           entry == EntryFor(t, label)
<1>0. AllGranted(t) /\ pc[t] = from
  BY Through DEF Stands
<1>a. /\ lock \in Locks \ locks /\ entry \in Entries
      /\ entry.task = t /\ entry.at = label /\ entry.mode = ModeOf(label)
  BY DEF Asks, EntryFor, Entries, ModeOf
<1>b. \A e \in Entries : e.task = t /\ e.at = label /\ e.mode = ModeOf(label) => e = entry
  BY DEF Entries, EntryFor
<1>c. /\ ~Due(lock, entry)
      /\ \A l \in Locks : \A e \in Entries :
           e.task = t => (Due(l, e)' <=> \/ Due(l, e) /\ l \notin locks
                                         \/ l = lock /\ e = entry)
  <2>1. pc'[t] = label
    BY DEF Goes, LockInv, RolesOK
  <2>2. \A e \in Entries : e.at \in Labels
    BY DEF Entries
  <2>3. ~Due(lock, entry)
    BY <1>0, <1>a DEF Due, Asks
  <2> HIDE DEF entry
  <2>4. ASSUME NEW l \in Locks, NEW e \in Entries, e.task = t
        PROVE  Due(l, e)' <=> \/ Due(l, e) /\ l \notin locks
                              \/ l = lock /\ e = entry
    BY <1>0, <1>a, <1>b, <2>1, <2>2, <2>4 DEF Due, Asks
  <2>5. QED
    BY <2>3, <2>4
<1>d. \/ queue' = Asked(Freed(t, locks), lock, entry)
      \/ locks = {} /\ queue' = Asked(queue, lock, entry)
  OBVIOUS
<1> HIDE DEF lock, entry
<1>1. ASSUME NEW l \in Locks
      PROVE  queue'[l] = CASE l \in locks -> Drop(queue[l], EntriesOf(queue[l], t))
                           [] l = lock -> Ask(queue[l], entry)
                           [] OTHER -> queue[l]
  BY <1>a, <1>d DEF Freed, Asked, LockInv, QueueInv
<1>2. DOMAIN queue' = Locks
  BY <1>d DEF Freed, Asked, LockInv, QueueInv
<1>3. \A l \in Locks : DOMAIN queue[l] = {e \in Entries : Due(l, e)}
  BY DEF LockInv, QueueInv
<1>4. ASSUME NEW l \in Locks
      PROVE  /\ TurnAt(queue[l], queue'[l], t)
             /\ \A e : e \in DOMAIN queue'[l] <=>
                         \/ e \in DOMAIN queue[l] /\ ~(l \in locks /\ e.task = t)
                         \/ l = lock /\ e = entry
  <2>1. CASE l \in locks
    <3>1. DOMAIN Drop(queue[l], EntriesOf(queue[l], t))
            = DOMAIN queue[l] \ EntriesOf(queue[l], t)
      BY DEF Drop
    <3>2. queue'[l] = Drop(queue[l], EntriesOf(queue[l], t)) /\ l # lock
      BY <1>1, <1>a, <2>1
    <3>3. TurnAt(queue[l], queue'[l], t)
      BY <3>2 DEF TurnAt
    <3>4. QED
      BY <2>1, <3>1, <3>2, <3>3 DEF EntriesOf
  <2>2. CASE l = lock
    <3>1. queue'[l] = Ask(queue[l], entry) /\ l \notin locks
      BY <1>1, <1>a, <2>2
    <3>2. entry \notin DOMAIN queue[l]
      BY <1>3, <1>c, <2>2
    <3>3. TurnAt(queue[l], queue'[l], t)
      BY <1>a, <3>1, <3>2 DEF TurnAt
    <3>4. DOMAIN Ask(queue[l], entry) = DOMAIN queue[l] \cup {entry}
      BY DEF Ask
    <3>5. QED
      BY <2>2, <3>1, <3>3, <3>4
  <2>3. CASE l \notin locks /\ l # lock
    BY <1>1, <2>3 DEF TurnAt
  <2>4. QED
    BY <2>1, <2>2, <2>3
<1>5. \A l \in Locks : \A e \in DOMAIN queue'[l] :
        e.task = t /\ e.at # label =>
          e \in DOMAIN queue[l] /\ Granted(queue[l], e)
  BY <1>0, <1>4, <1>a DEF AllGranted, EntriesOf
<1>6. \A l \in Locks : DOMAIN queue'[l] \subseteq Entries
  BY <1>3, <1>4, <1>a
<1>7. \A l \in Locks, e \in Entries :
        e.task = t => (e \in DOMAIN queue'[l] <=> Due(l, e)')
  BY <1>3, <1>4, <1>c
<1>8. QED
  BY <1>2, <1>4, <1>5, <1>6, <1>7, TurnKeepsQueues

\* The ways from label to label, and what they do to the locks.
LEMMA Ways ==
  /\ Asks("away", "route", {}) /\ Asks("route", "select", {"config"})
  /\ Asks("select", "connect", {"keys"}) /\ Frees("connect", "send", {"clients"})
  /\ Frees("send", "away", {}) /\ Asks("send", "report", {})
  /\ Asks("report", "route", {"keys"})
  /\ Asks("away", "summarise", {}) /\ Asks("summarise", "describe", {})
  /\ Asks("away", "authorise", {}) /\ Asks("authorise", "clone", {})
  /\ Frees("broadcast", "done", {"config"})
  /\ Asks("receive", "check", {}) /\ Frees("receive", "ended", {})
  /\ Frees("check", "save", {"config"}) /\ Frees("save", "build", {})
  /\ Asks("build", "lockConfig", {}) /\ Asks("lockConfig", "lockClients", {})
  /\ Asks("lockClients", "lockKeys", {}) /\ Frees("lockKeys", "swap", {})
  /\ \A from : \A to \in {"away", "done", "receive"} : Frees(from, to, Locks)
BY DEF Asks, Frees, LockOf, Kept, Locks, Labels

\* Which lock each await is for, and the entry it makes.
LEMMA Awaits ==
  /\ \A await \in {"route", "describe", "authorise", "clone", "check", "lockConfig"} :
       LockOf(await) = "config"
  /\ \A await \in {"connect", "lockClients"} : LockOf(await) = "clients"
  /\ \A await \in {"select", "report", "summarise", "lockKeys"} :
       LockOf(await) = "keys"
  /\ \A await \in {"away", "send", "broadcast", "receive", "save", "build", "swap"} :
       LockOf(await) \notin Locks
  /\ \A t : \A await \in {"report", "lockConfig", "lockClients", "lockKeys"} :
       EntryFor(t, await) = Writer(t, await)
  /\ \A t : \A await \in {"route", "describe", "authorise", "clone", "check",
                         "connect", "select", "summarise"} :
       EntryFor(t, await) = Reader(t, await)
BY DEF LockOf, Locks, EntryFor, ModeOf, Reader, Writer

\* An editor drops the second of its two guards.
LEMMA ReleaseStep ==
  ASSUME LockInv, NEW e \in Tasks, Stands(e, "clone"), Goes(e, "broadcast"), RolesOK',
         queue' = [queue EXCEPT !["config"] = Drop(@, {Reader(e, "clone")})]
  PROVE  LockInv'
<1> DEFINE f == Reader(e, "clone")
<1>1. AllGranted(e) /\ pc[e] = "clone" /\ pc'[e] = "broadcast"
  BY Through DEF Stands, Goes, LockInv, RolesOK
<1>2. /\ f \in Entries /\ f.task = e /\ f.at = "clone" /\ f.mode = "read"
      /\ \A x \in Entries : x.task = e /\ x.at = "clone" /\ x.mode = "read" => x = f
  BY DEF Reader, Entries, Labels
<1>3. DOMAIN Drop(queue["config"], {f}) = DOMAIN queue["config"] \ {f}
  BY DEF Drop
<1> HIDE DEF f
<1>4. /\ DOMAIN queue' = Locks
      /\ queue'["config"] = Drop(queue["config"], {f})
      /\ \A l \in Locks \ {"config"} : queue'[l] = queue[l]
  BY DEF LockInv, QueueInv, Locks, f
<1>5. \A l \in Locks : DOMAIN queue[l] = {x \in Entries : Due(l, x)}
  BY DEF LockInv, QueueInv
<1>6. f \in EntriesOf(queue["config"], e)
  BY <1>1, <1>2, <1>5 DEF EntriesOf, Due, LockOf, ModeOf, Kept, Locks
<1>7. \A l \in Locks : TurnAt(queue[l], queue'[l], e)
  BY <1>4, <1>6 DEF TurnAt
<1>8. \A l \in Locks : \A x : x \in DOMAIN queue'[l] <=>
                                x \in DOMAIN queue[l] /\ ~(l = "config" /\ x = f)
  BY <1>3, <1>4
<1>9. \A l \in Locks, x \in Entries :
        x.task = e => (x \in DOMAIN queue'[l] <=> Due(l, x)')
  <2>1. \A await \in Labels : LockOf(await) \in Locks =>
          ("broadcast" \in Kept(await) <=> "clone" \in Kept(await) /\ await # "clone")
    BY DEF LockOf, Kept, Locks, Labels
  <2>2. LockOf("clone") = "config" /\ ModeOf("clone") = "read"
    BY DEF LockOf, ModeOf
  <2>3. ASSUME NEW l \in Locks, NEW x \in Entries, x.task = e
        PROVE  x \in DOMAIN queue'[l] <=> Due(l, x)'
    <3>1. x.at \in Labels
      BY DEF Entries
    <3>2. Due(l, x)' <=> Due(l, x) /\ x.at # "clone"
      BY <1>1, <2>1, <2>3, <3>1 DEF Due
    <3>3. Due(l, x) /\ x.at = "clone" => l = "config" /\ x = f
      BY <1>2, <2>2, <2>3 DEF Due
    <3>4. QED
      BY <1>2, <1>5, <1>8, <3>2, <3>3
  <2>4. QED
    BY <2>3
<1>10. \A l \in Locks : DOMAIN queue'[l] \subseteq Entries
  BY <1>5, <1>8
<1>11. \A l \in Locks : \A x \in DOMAIN queue'[l] :
         x.task = e /\ x.at # "broadcast" =>
           x \in DOMAIN queue[l] /\ Granted(queue[l], x)
  BY <1>1, <1>8 DEF AllGranted, EntriesOf
<1>12. DOMAIN queue' = Locks
  BY <1>4
<1>13. QED
  BY ONLY LockInv, e \in Tasks, Goes(e, "broadcast"), RolesOK',
          <1>12, <1>7, <1>9, <1>10, <1>11, TurnKeepsQueues
-----------------------------------------------------------------------------
\* A proxied request keeps the queues in order.
LEMMA ProxyLocks ==
  ASSUME LockInv, NEW p \in Proxies, Arrive(p) \/ ProxyStep(p) \/ Depart(p)
  PROVE  LockInv'
<1>1. p \in Tasks /\ p \notin Watchers \cup Editors \cup {Worker}
  BY TasksAssumption DEF Tasks, Requests
<1>2. \A label \in ProxyLabels : Goes(p, label) => RolesOK' /\ label \in Labels
  <2>1. ProxyLabels \subseteq Labels
    BY DEF ProxyLabels, Labels
  <2>2. QED
    BY <1>1, <2>1, RolesKept DEF LockInv
<1>3. CASE Arrive(p)
  <2>1. /\ Stands(p, "away") /\ Goes(p, "route")
        /\ queue' = Asked(queue, "config", EntryFor(p, "route"))
    BY <1>3, Awaits DEF Arrive, Has, Stands
  <2>2. QED
    BY <1>1, <1>2, <2>1, Ways, Awaits, AskStep DEF ProxyLabels, Locks
<1>4. CASE Route(p)
  <2>1. /\ Stands(p, "route") /\ Goes(p, "select")
        /\ queue' = Asked(Freed(p, {"config"}), "keys", EntryFor(p, "select"))
    BY <1>4, Awaits DEF Route, Has, Stands
  <2>2. QED
    BY <1>1, <1>2, <2>1, Ways, Awaits, AskStep DEF ProxyLabels, Locks
<1>5. CASE Select(p)
  <2>1. /\ Stands(p, "select") /\ Goes(p, "connect")
        /\ queue' = Asked(Freed(p, {"keys"}), "clients", EntryFor(p, "connect"))
    BY <1>5, Awaits DEF Select, Has, Stands
  <2>2. QED
    BY <1>1, <1>2, <2>1, Ways, Awaits, AskStep DEF ProxyLabels, Locks
<1>6. CASE Connect(p)
  <2>1. Stands(p, "connect") /\ Goes(p, "send") /\ queue' = Freed(p, {"clients"})
    BY <1>6, Awaits DEF Connect, Has, Stands
  <2>2. QED
    BY <1>1, <1>2, <2>1, Ways, FreeStep DEF ProxyLabels, Locks, Stands
<1>7. CASE Answer(p)
  <2>1. Stands(p, "send") /\ Goes(p, "away") /\ UNCHANGED queue
    BY <1>7, Awaits DEF Answer, Has, Stands
  <2>2. QED
    BY <1>1, <1>2, <2>1, Ways, FreeStep DEF ProxyLabels, Locks, Stands
<1>8. CASE Refuse(p)
  <2>1. /\ Stands(p, "send") /\ Goes(p, "report")
        /\ queue' = Asked(queue, "keys", EntryFor(p, "report"))
    BY <1>8, Awaits DEF Refuse, Has, Stands
  <2>2. QED
    BY <1>1, <1>2, <2>1, Ways, Awaits, AskStep DEF ProxyLabels, Locks
<1>9. CASE Report(p)
  <2>1. /\ Stands(p, "report") /\ Goes(p, "route")
        /\ queue' = Asked(Freed(p, {"keys"}), "config", EntryFor(p, "route"))
    BY <1>9, Awaits DEF Report, Has, Stands
  <2>2. QED
    BY <1>1, <1>2, <2>1, Ways, Awaits, AskStep DEF ProxyLabels, Locks
<1>10. CASE Depart(p)
  <2>1. Goes(p, "away") /\ queue' = Freed(p, Locks)
    BY <1>1, <1>10 DEF Depart
  <2>2. QED
    BY <1>1, <1>2, <2>1, Ways, FreeStep DEF ProxyLabels
<1>11. QED
  BY <1>3, <1>4, <1>5, <1>6, <1>7, <1>8, <1>9, <1>10 DEF ProxyStep

\* So does a health check.
LEMMA WatcherLocks ==
  ASSUME LockInv, NEW w \in Watchers, Watch(w) \/ WatcherStep(w) \/ Depart(w)
  PROVE  LockInv'
<1>1. w \in Tasks /\ w \notin Proxies \cup Editors \cup {Worker}
  BY TasksAssumption DEF Tasks, Requests
<1>2. \A label \in WatcherLabels : Goes(w, label) => RolesOK' /\ label \in Labels
  <2>1. WatcherLabels \subseteq Labels
    BY DEF WatcherLabels, Labels
  <2>2. QED
    BY <1>1, <2>1, RolesKept DEF LockInv
<1>3. CASE Watch(w)
  <2>1. /\ Stands(w, "away") /\ Goes(w, "summarise")
        /\ queue' = Asked(queue, "keys", EntryFor(w, "summarise"))
    BY <1>3, Awaits DEF Watch, Has, Stands
  <2>2. QED
    BY <1>1, <1>2, <2>1, Ways, Awaits, AskStep DEF WatcherLabels, Locks
<1>4. CASE Summarise(w)
  <2>1. /\ Stands(w, "summarise") /\ Goes(w, "describe")
        /\ queue' = Asked(queue, "config", EntryFor(w, "describe"))
    BY <1>4, Awaits DEF Summarise, Has, Stands
  <2>2. QED
    BY <1>1, <1>2, <2>1, Ways, Awaits, AskStep DEF WatcherLabels, Locks
<1>5. CASE Describe(w)
  <2>1. Goes(w, "away") /\ queue' = Freed(w, Locks)
    BY <1>1, <1>5 DEF Describe
  <2>2. QED
    BY <1>1, <1>2, <2>1, Ways, FreeStep DEF WatcherLabels
<1>6. CASE Depart(w)
  <2>1. Goes(w, "away") /\ queue' = Freed(w, Locks)
    BY <1>1, <1>6 DEF Depart
  <2>2. QED
    BY <1>1, <1>2, <2>1, Ways, FreeStep DEF WatcherLabels
<1>7. QED
  BY <1>3, <1>4, <1>5, <1>6 DEF WatcherStep

\* So does a request of an administrator.
LEMMA EditorLocks ==
  ASSUME LockInv, NEW e \in Editors, Knock(e) \/ EditorStep(e) \/ Depart(e)
  PROVE  LockInv'
<1>1. e \in Tasks /\ e \notin Proxies \cup Watchers \cup {Worker}
  BY TasksAssumption DEF Tasks, Requests
<1>2. \A label \in EditorLabels : Goes(e, label) => RolesOK' /\ label \in Labels
  <2>1. EditorLabels \subseteq Labels
    BY DEF EditorLabels, Labels
  <2>2. QED
    BY <1>1, <2>1, RolesKept DEF LockInv
<1>3. CASE Knock(e)
  <2>1. /\ Stands(e, "away") /\ Goes(e, "authorise")
        /\ queue' = Asked(queue, "config", EntryFor(e, "authorise"))
    BY <1>3, Awaits DEF Knock, Has, Stands
  <2>2. QED
    BY <1>1, <1>2, <2>1, Ways, Awaits, AskStep DEF EditorLabels, Locks
<1>4. CASE Authorise(e)
  <2>1. /\ Stands(e, "authorise") /\ Goes(e, "clone")
        /\ queue' = Asked(queue, "config", EntryFor(e, "clone"))
    BY <1>4, Awaits DEF Authorise, Has, Stands
  <2>2. QED
    BY <1>1, <1>2, <2>1, Ways, Awaits, AskStep DEF EditorLabels, Locks
<1>5. CASE Clone(e)
  <2>1. /\ Stands(e, "clone") /\ Goes(e, "broadcast")
        /\ queue' = [queue EXCEPT !["config"] = Drop(@, {Reader(e, "clone")})]
    BY <1>5, Awaits DEF Clone, Has, Stands
  <2>2. QED
    BY <1>1, <1>2, <2>1, ReleaseStep DEF EditorLabels
<1>6. CASE Send(e)
  <2>1. Stands(e, "broadcast") /\ Goes(e, "done") /\ queue' = Freed(e, {"config"})
    BY <1>6, Awaits DEF Send, Has, Stands
  <2>2. QED
    BY <1>1, <1>2, <2>1, Ways, FreeStep DEF EditorLabels, Locks, Stands
<1>7. CASE Depart(e)
  <2>1. Goes(e, "done") /\ queue' = Freed(e, Locks)
    BY <1>1, <1>7 DEF Depart
  <2>2. QED
    BY <1>1, <1>2, <2>1, Ways, FreeStep DEF EditorLabels
<1>8. QED
  BY <1>3, <1>4, <1>5, <1>6, <1>7 DEF EditorStep

\* So does the worker.
LEMMA WorkerLocks ==
  ASSUME LockInv, WorkerStep
  PROVE  LockInv'
<1>1. Worker \in Tasks /\ Worker \notin Proxies \cup Watchers \cup Editors
  BY TasksAssumption DEF Tasks, Requests
<1>2. \A label \in WorkerLabels : Goes(Worker, label) => RolesOK' /\ label \in Labels
  <2>1. WorkerLabels \subseteq Labels
    BY DEF WorkerLabels, Labels
  <2>2. QED
    BY <1>1, <2>1, RolesKept DEF LockInv
<1>3. CASE Receive
  <2>1. /\ Stands(Worker, "receive") /\ Goes(Worker, "check")
        /\ queue' = Asked(queue, "config", EntryFor(Worker, "check"))
    BY <1>3, Awaits DEF Receive, Has, Stands
  <2>2. QED
    BY <1>1, <1>2, <2>1, Ways, Awaits, AskStep DEF WorkerLabels, Locks
<1>4. CASE LagEnds
  <2>1. Stands(Worker, "receive") /\ Goes(Worker, "ended") /\ UNCHANGED queue
    BY <1>4, Awaits DEF LagEnds, Has, Stands
  <2>2. QED
    BY <1>1, <1>2, <2>1, Ways, FreeStep DEF WorkerLabels, Locks, Stands
<1>5. CASE Check /\ ~GivesUp
  <2>1. Stands(Worker, "check") /\ Goes(Worker, "save") /\ queue' = Freed(Worker, {"config"})
    BY <1>5, Awaits DEF Check, Has, Stands
  <2>2. QED
    BY <1>1, <1>2, <2>1, Ways, FreeStep DEF WorkerLabels, Locks, Stands
<1>6. CASE Save /\ ~GivesUp
  <2>1. Stands(Worker, "save") /\ Goes(Worker, "build") /\ UNCHANGED queue
    BY <1>6, Awaits DEF Save, Has, Stands
  <2>2. QED
    BY <1>1, <1>2, <2>1, Ways, FreeStep DEF WorkerLabels, Locks, Stands
<1>7. CASE Build /\ ~GivesUp
  <2>1. /\ Stands(Worker, "build") /\ Goes(Worker, "lockConfig")
        /\ queue' = Asked(queue, "config", EntryFor(Worker, "lockConfig"))
    BY <1>7, Awaits DEF Build, Has, Stands
  <2>2. QED
    BY <1>1, <1>2, <2>1, Ways, Awaits, AskStep DEF WorkerLabels, Locks
<1>8. CASE LockConfig
  <2>1. /\ Stands(Worker, "lockConfig") /\ Goes(Worker, "lockClients")
        /\ queue' = Asked(queue, "clients", EntryFor(Worker, "lockClients"))
    BY <1>8, Awaits DEF LockConfig, Has, Stands
  <2>2. QED
    BY <1>1, <1>2, <2>1, Ways, Awaits, AskStep DEF WorkerLabels, Locks
<1>9. CASE LockClients
  <2>1. /\ Stands(Worker, "lockClients") /\ Goes(Worker, "lockKeys")
        /\ queue' = Asked(queue, "keys", EntryFor(Worker, "lockKeys"))
    BY <1>9, Awaits DEF LockClients, Has, Stands
  <2>2. QED
    BY <1>1, <1>2, <2>1, Ways, Awaits, AskStep DEF WorkerLabels, Locks
<1>10. CASE ReloadKeys /\ ~GivesUp
  <2>1. Stands(Worker, "lockKeys") /\ Goes(Worker, "swap") /\ UNCHANGED queue
    BY <1>10, Awaits DEF ReloadKeys, Has, Stands
  <2>2. QED
    BY <1>1, <1>2, <2>1, Ways, FreeStep DEF WorkerLabels, Locks, Stands
<1>11. CASE GivesUp
  <2>1. Goes(Worker, "receive") /\ queue' = Freed(Worker, Locks)
    BY <1>1, <1>11 DEF GivesUp
  <2>2. QED
    BY <1>1, <1>2, <2>1, Ways, FreeStep DEF WorkerLabels
<1>12. QED
  BY <1>3, <1>4, <1>5, <1>6, <1>7, <1>8, <1>9, <1>10, <1>11 DEF WorkerStep, Swap
-----------------------------------------------------------------------------
\* Initially nobody stands in a queue.
LEMMA InitLocks == Init => LockInv
<1> SUFFICES ASSUME Init PROVE LockInv
  OBVIOUS
<1>1. RolesOK
  BY TasksAssumption DEF Init, RolesOK, Tasks, Requests, Labels, ProxyLabels,
     WatcherLabels, EditorLabels, WorkerLabels
<1>2. DOMAIN Unlocked = {}
  BY DEF Unlocked
<1>3. Ordered(Unlocked)
  <2>1. IsFiniteSet(DOMAIN Unlocked)
    BY <1>2, FS_EmptySet
  <2>2. Unlocked \in [DOMAIN Unlocked -> SUBSET DOMAIN Unlocked]
    BY DEF Unlocked
  <2>3. QED
    BY <1>2, <2>1, <2>2 DEF Ordered
<1>4. \A l \in Locks : \A e \in Entries : ~Due(l, e)
  <2>1. \A await \in Labels : LockOf(await) \in Locks =>
          "away" \notin Kept(await) /\ "receive" \notin Kept(await)
    BY DEF Labels, LockOf, Locks, Kept
  <2>2. \A t \in Tasks : pc[t] \in {"away", "receive"}
    BY DEF Init
  <2>3. QED
    BY <2>1, <2>2 DEF Due, Entries
<1>5. QueueInv
  BY <1>2, <1>3, <1>4 DEF Init, QueueInv
<1>6. QED
  BY <1>1, <1>5 DEF LockInv

\* Every step keeps the queues in order.
LEMMA NextLocks ==
  ASSUME LockInv, [Next]_vars
  PROVE  LockInv'
<1>1. CASE UNCHANGED vars
  BY <1>1 DEF vars, LockInv, RolesOK, QueueInv, Due
<1>2. QED
  BY <1>1, ProxyLocks, WatcherLocks, EditorLocks, WorkerLocks DEF Next

\* A task stands in the queue wherever its label says so, and holds the lock when
\* it has gone on.
LEMMA DueStands ==
  ASSUME LockInv, NEW t \in Tasks, NEW await \in Labels,
         LockOf(await) \in Locks, pc[t] \in Kept(await)
  PROVE  /\ EntryFor(t, await) \in EntriesOf(queue[LockOf(await)], t)
         /\ pc[t] # await => Granted(queue[LockOf(await)], EntryFor(t, await))
<1>1. /\ EntryFor(t, await) \in Entries
      /\ EntryFor(t, await).task = t /\ EntryFor(t, await).at = await
      /\ EntryFor(t, await).mode = ModeOf(await)
  BY DEF EntryFor, Entries, ModeOf
<1>2. EntryFor(t, await) \in DOMAIN queue[LockOf(await)]
  BY <1>1 DEF LockInv, QueueInv, Due
<1>3. QED
  BY <1>1, <1>2 DEF LockInv, QueueInv, EntriesOf

\* Nobody shares a lock with a writer.
LEMMA WriterAlone ==
  ASSUME NEW q, Ordered(q), NEW x \in DOMAIN q, NEW y \in DOMAIN q, x # y,
         x.mode = "write", Granted(q, x), Granted(q, y)
  PROVE  FALSE
BY DEF Ordered, Granted, Blockers

\* While the key manager is replaced no health report is under way.
LEMMA NoReportAtReload ==
  ASSUME LockInv, Has(Worker, "lockKeys", "keys"), NEW w \in Watchers
  PROVE  pc[w] # "describe"
<1> SUFFICES ASSUME pc[w] = "describe" PROVE FALSE
  OBVIOUS
<1>1. w \in Tasks /\ Worker \in Tasks /\ w # Worker
  BY TasksAssumption DEF Tasks, Requests
<1>2. LockOf("lockKeys") = "keys" /\ LockOf("summarise") = "keys" /\ "keys" \in Locks
  BY Awaits DEF Locks
<1>3. {"lockKeys", "summarise"} \subseteq Labels
  BY DEF Labels
<1>4. pc[Worker] \in Kept("lockKeys") /\ pc[w] \in Kept("summarise")
  BY DEF Has, Kept
<1>5. /\ EntryFor(Worker, "lockKeys") \in EntriesOf(queue["keys"], Worker)
      /\ EntryFor(w, "summarise") \in EntriesOf(queue["keys"], w)
      /\ Granted(queue["keys"], EntryFor(w, "summarise"))
  BY <1>1, <1>2, <1>3, <1>4, DueStands
<1>6. Granted(queue["keys"], EntryFor(Worker, "lockKeys"))
  BY <1>5 DEF Has, Waits
<1>7. EntryFor(Worker, "lockKeys").mode = "write"
  BY DEF EntryFor, ModeOf
<1>8. QED
  BY <1>1, <1>2, <1>5, <1>6, <1>7, WriterAlone DEF EntriesOf, LockInv, QueueInv

\* While the worker has the configuration's write lock nobody reads it.
LEMMA NoReaderAtSwap ==
  ASSUME LockInv, pc[Worker] = "swap", NEW w \in Watchers
  PROVE  ~Has(w, "describe", "config")
<1> SUFFICES ASSUME Has(w, "describe", "config") PROVE FALSE
  OBVIOUS
<1>1. w \in Tasks /\ Worker \in Tasks /\ w # Worker
  BY TasksAssumption DEF Tasks, Requests
<1>2. /\ LockOf("lockConfig") = "config" /\ LockOf("describe") = "config"
      /\ "config" \in Locks
  BY Awaits DEF Locks
<1>3. {"lockConfig", "describe"} \subseteq Labels
  BY DEF Labels
<1>4. pc[Worker] \in Kept("lockConfig") /\ pc[w] \in Kept("describe")
  BY DEF Has, Kept
<1>5. /\ EntryFor(Worker, "lockConfig") \in EntriesOf(queue["config"], Worker)
      /\ EntryFor(w, "describe") \in EntriesOf(queue["config"], w)
      /\ Granted(queue["config"], EntryFor(Worker, "lockConfig"))
  BY <1>1, <1>2, <1>3, <1>4, DueStands
<1>6. Granted(queue["config"], EntryFor(w, "describe"))
  BY <1>5 DEF Has, Waits
<1>7. EntryFor(Worker, "lockConfig").mode = "write"
  BY DEF EntryFor, ModeOf
<1>8. QED
  BY <1>1, <1>2, <1>5, <1>6, <1>7, WriterAlone DEF EntriesOf, LockInv, QueueInv
-----------------------------------------------------------------------------
\* A nonempty set of numbers has a least element.
LEMMA LeastNumber ==
  ASSUME NEW T \in SUBSET Nat, T # {}
  PROVE  \E m \in T : \A n \in T : m <= n
<1>1. PICK m \in T : \A n \in T : ~ (<<n, m>> \in OpToRel(<, Nat))
  BY NatLessThanWellFounded, WFMin, Zenon
<1>2. \A n \in T : ~ (n < m)
  BY <1>1 DEF OpToRel
<1>3. QED
  BY <1>2

\* Of some entries of a queue one is foremost: none of the others is ahead of it.
LEMMA Foremost ==
  ASSUME NEW q, Ordered(q), NEW E \in SUBSET DOMAIN q, E # {}
  PROVE  \E e \in E : E \cap q[e] = {}
<1> DEFINE sizes == {Cardinality(q[e]) : e \in E}
<1>1. \A e \in DOMAIN q : IsFiniteSet(q[e]) /\ Cardinality(q[e]) \in Nat
  BY FS_Subset, FS_CardinalityType DEF Ordered
<1>2. sizes \in SUBSET Nat /\ sizes # {}
  BY <1>1
<1>3. PICK n \in sizes : \A m \in sizes : n <= m
  BY <1>2, LeastNumber
<1>4. PICK e \in E : Cardinality(q[e]) = n
  BY <1>3
<1>5. ASSUME NEW x \in E, x \in q[e] PROVE FALSE
  <2>1. q[x] \subseteq q[e] /\ x \notin q[x]
    BY <1>5 DEF Ordered
  <2>2. q[x] # q[e]
    BY <1>5, <2>1
  <2>3. Cardinality(q[x]) < Cardinality(q[e])
    BY <1>1, <2>1, <2>2, FS_Subset
  <2>4. n <= Cardinality(q[x])
    BY <1>3, <1>5
  <2>5. QED
    BY <1>1, <1>4, <2>3, <2>4
<1>6. QED
  BY <1>5

\* The entries of S in a queue that wait for S.
Stuck(l, S) ==
  {e \in DOMAIN queue[l] : /\ e.task \in S
                           /\ \E x \in Blockers(queue[l], e) : x.task \in S}

\* A task has one stuck entry at most: the one of the await it stands at.
LEMMA StuckAtAwait ==
  ASSUME LockInv, NEW S, NEW l \in Locks, NEW e \in Stuck(l, S)
  PROVE  /\ e \in Entries /\ e.at = pc[e.task] /\ LockOf(pc[e.task]) = l
         /\ e.mode = ModeOf(pc[e.task]) /\ ~Granted(queue[l], e)
<1>1. e \in DOMAIN queue[l] /\ ~Granted(queue[l], e)
  BY DEF Stuck, Granted
<1>2. QED
  BY <1>1 DEF LockInv, QueueInv, Due

\* Where tasks wait for each other, one of them holds what another waits for,
\* and waits elsewhere.
LEMMA HolderInCircle ==
  ASSUME LockInv, NEW S \in SUBSET Tasks, Deadlocked(S),
         NEW l \in Locks, Stuck(l, S) # {}
  PROVE  \E x \in DOMAIN queue[l] :
           /\ x.task \in S /\ Granted(queue[l], x) /\ pc[x.task] \in Kept(x.at)
           /\ LockOf(x.at) = l /\ x.at # pc[x.task]
           /\ \E k \in Locks : \E e \in Stuck(k, S) : e.task = x.task
<1>1. Ordered(queue[l])
  BY DEF LockInv, QueueInv
<1>2. Stuck(l, S) \in SUBSET DOMAIN queue[l]
  BY DEF Stuck
<1>3. PICK e \in Stuck(l, S) : Stuck(l, S) \cap queue[l][e] = {}
  BY <1>1, <1>2, Foremost
<1>4. PICK x \in Blockers(queue[l], e) : x.task \in S
  BY DEF Stuck
<1>5. x \in queue[l][e] /\ x \in DOMAIN queue[l]
  BY <1>1, <1>2 DEF Blockers, Ordered
<1>6. x \in Entries /\ Due(l, x)
  BY <1>5 DEF LockInv, QueueInv
<1>7. PICK k \in Locks : WaitsFor(queue[k], x.task, S)
  BY <1>4 DEF Deadlocked
<1>8. PICK f \in Stuck(k, S) : f.task = x.task
  BY <1>4, <1>7 DEF WaitsFor, EntriesOf, Stuck
<1>9. x.at # pc[x.task]
  <2> SUFFICES ASSUME x.at = pc[x.task] PROVE FALSE
    OBVIOUS
  <2>1. /\ f \in Entries /\ f.at = x.at /\ k = l /\ f.mode = x.mode
    BY <1>6, <1>8, StuckAtAwait DEF Due
  <2>2. f = x
    BY <1>6, <1>8, <2>1 DEF Entries
  <2>3. QED
    BY <1>3, <1>5, <1>8, <2>1, <2>2
<1>10. Granted(queue[l], x)
  BY <1>5, <1>9 DEF LockInv, QueueInv
<1>11. QED
  BY <1>4, <1>5, <1>6, <1>8, <1>9, <1>10 DEF Due

\* Who holds a lock and waits for another one: an administrator's request or a
\* health check, for the configuration, or the worker, for a later lock.
LEMMA HoldsAndWaits ==
  ASSUME LockInv, NEW t \in Tasks, NEW l \in Locks, NEW await \in Labels,
         LockOf(await) = l, pc[t] \in Kept(await), pc[t] # await,
         LockOf(pc[t]) \in Locks
  PROVE  \/ t \in Watchers \cup Editors /\ LockOf(pc[t]) = "config"
         \/ l = "config" /\ LockOf(pc[t]) \in {"clients", "keys"}
         \/ l = "clients" /\ LockOf(pc[t]) = "keys"
<1>1. \/ await = "authorise" /\ pc[t] = "clone"
      \/ await = "summarise" /\ pc[t] = "describe"
      \/ await = "lockConfig" /\ pc[t] \in {"lockClients", "lockKeys"}
      \/ await = "lockClients" /\ pc[t] = "lockKeys"
  BY DEF Kept, LockOf, Locks, Labels
<1>2. pc[t] \in {"clone", "describe"} => t \in Watchers \cup Editors
  BY DEF LockInv, RolesOK, Tasks, Requests, ProxyLabels, WorkerLabels
<1>3. QED
  BY <1>1, <1>2, Awaits

\* A circle without an admin request that waits for the configuration would have
\* to close through the worker, which takes the locks in one order.
LEMMA CircleHasAdmin ==
  ASSUME LockInv, NEW S \in SUBSET Tasks, Deadlocked(S)
  PROVE  \E t \in S \cap (Watchers \cup Editors) :
           /\ Waits(queue["config"], t)
           /\ \E l \in Locks : Holds(queue[l], t)
<1> DEFINE Admin == \E t \in S \cap (Watchers \cup Editors) :
                      /\ Waits(queue["config"], t)
                      /\ \E l \in Locks : Holds(queue[l], t)
<1>1. ASSUME NEW l \in Locks, Stuck(l, S) # {}
      PROVE  \/ Admin
             \/ l = "config" /\ (Stuck("clients", S) # {} \/ Stuck("keys", S) # {})
             \/ l = "clients" /\ Stuck("keys", S) # {}
  <2>1. PICK x \in DOMAIN queue[l] :
          /\ x.task \in S /\ Granted(queue[l], x) /\ pc[x.task] \in Kept(x.at)
          /\ LockOf(x.at) = l /\ x.at # pc[x.task]
          /\ \E k \in Locks : \E e \in Stuck(k, S) : e.task = x.task
    BY <1>1, HolderInCircle
  <2>2. PICK k \in Locks : \E e \in Stuck(k, S) : e.task = x.task
    BY <2>1
  <2>3. PICK e \in Stuck(k, S) : e.task = x.task
    BY <2>2
  <2>4. LockOf(pc[x.task]) = k /\ ~Granted(queue[k], e) /\ e \in DOMAIN queue[k]
    BY <2>3, StuckAtAwait DEF Stuck
  <2>5. x.at \in Labels /\ x.task \in Tasks
    BY DEF LockInv, QueueInv, Entries
  <2>6. \/ x.task \in Watchers \cup Editors /\ k = "config"
        \/ l = "config" /\ k \in {"clients", "keys"}
        \/ l = "clients" /\ k = "keys"
    BY <2>1, <2>4, <2>5, HoldsAndWaits
  <2>7. Waits(queue[k], x.task) /\ Holds(queue[l], x.task)
    BY <2>1, <2>3, <2>4 DEF Waits, Holds, EntriesOf
  <2>8. QED
    BY <2>1, <2>3, <2>6, <2>7
<1>2. PICK t \in S : \E l \in Locks : WaitsFor(queue[l], t, S)
  BY DEF Deadlocked
<1>3. PICK l \in Locks : Stuck(l, S) # {}
  BY <1>2 DEF WaitsFor, EntriesOf, Stuck
<1>4. Stuck("keys", S) # {} => Admin
  BY <1>1 DEF Locks
<1>5. Stuck("clients", S) # {} => Admin
  BY <1>1, <1>4 DEF Locks
<1>6. QED
  BY <1>1, <1>3, <1>4, <1>5 DEF Locks
-----------------------------------------------------------------------------
Validated == {"save", "build", "lockConfig", "lockClients", "lockKeys", "swap"}
Saved     == Validated \ {"save"}

\* The update in the worker's hand.
HandOK ==
  /\ pc[Worker] \in Validated => hand[Worker] \in ValidConfigs
  /\ pc[Worker] \in Saved => file = hand[Worker]

\* An update that is about to be sent.
DraftsOK == \A e \in Editors : pc[e] = "broadcast" => hand[e] \in Configuration

\* Until the channel has overrun, what was accepted and not received is in it.
NewsOK ==
  /\ channel \in Seq(Configuration)
  /\ accepted \in Seq(Configuration) /\ taken \in Seq(Configuration)
  /\ lagged \/ accepted = taken \o channel
  /\ IsPrefix(taken, accepted)

\* The inductive invariant.
UpdateInv ==
  /\ DOMAIN pc = Tasks /\ DOMAIN hand = Tasks
  /\ config \in Configuration
  /\ HandOK /\ DraftsOK /\ NewsOK
-----------------------------------------------------------------------------
\* A sequence of updates is a prefix of what it is continued to.
LEMMA PrefixOfContinued ==
  ASSUME NEW S, NEW s \in Seq(S), NEW t \in Seq(S)
  PROVE  IsPrefix(s, s \o t)
BY DEF IsPrefix

\* A prefix stays one when the longer sequence grows.
LEMMA PrefixOfGrown ==
  ASSUME NEW S, NEW s \in Seq(S), NEW t \in Seq(S), NEW x \in S, IsPrefix(s, t)
  PROVE  IsPrefix(s, Append(t, x))
<1>1. Len(s) <= Len(t) /\ SubSeq(s, 1, Len(s)) = SubSeq(t, 1, Len(s))
  BY DEF IsPrefix
<1>2. SubSeq(Append(t, x), 1, Len(s)) = SubSeq(t, 1, Len(s))
  BY <1>1
<1>3. Len(s) <= Len(Append(t, x))
  BY <1>1
<1>4. QED
  BY <1>1, <1>2, <1>3 DEF IsPrefix

\* What is appended to the second half is appended to the whole.
LEMMA AppendedToHalf ==
  ASSUME NEW s \in Seq(Configuration), NEW t \in Seq(Configuration),
         NEW x \in Configuration
  PROVE  Append(s \o t, x) = s \o Append(t, x)
OBVIOUS

\* The head of the second half may as well end the first.
LEMMA HeadMoved ==
  ASSUME NEW S, NEW s \in Seq(S), NEW t \in Seq(S), t # << >>
  PROVE  /\ Head(t) \in S /\ Tail(t) \in Seq(S)
         /\ s \o t = Append(s, Head(t)) \o Tail(t)
OBVIOUS

\* Pushing into a channel that is not full keeps what was in it.
LEMMA PushKeeps ==
  ASSUME NEW msgs \in Seq(Configuration), NEW cfg \in Configuration
  PROVE  /\ Pushed(msgs, cfg) \in Seq(Configuration)
         /\ Len(msgs) # ChannelSize => Pushed(msgs, cfg) = Append(msgs, cfg)
<1>1. CASE Len(msgs) = ChannelSize
  <2>1. msgs # << >>
    BY <1>1, ChannelSizeAssumption
  <2>2. Tail(msgs) \in Seq(Configuration)
    BY <2>1
  <2>3. QED
    BY <1>1, <2>2 DEF Pushed
<1>2. CASE Len(msgs) # ChannelSize
  BY <1>2 DEF Pushed
<1>3. QED
  BY <1>1, <1>2

\* The worker is none of the other tasks.
LEMMA WorkerApart ==
  /\ Worker \in Tasks /\ \A t \in Requests : t \in Tasks /\ t # Worker
  /\ \A t \in Proxies \cup Watchers : t \in Requests /\ t \notin Editors
BY TasksAssumption DEF Tasks, Requests

\* A step of a request that touches neither channel, file nor configuration.
LEMMA QuietStep ==
  ASSUME UpdateInv, NEW t \in Requests, NEW label, NEW h,
         Goes(t, label),
         hand' = hand \/ hand' = [hand EXCEPT ![t] = h],
         t \in Editors /\ label = "broadcast" => hand'[t] \in Configuration,
         UNCHANGED <<news, file, state>>
  PROVE  UpdateInv'
<1>1. /\ pc' = [pc EXCEPT ![t] = label] /\ t \in Tasks /\ t # Worker
      /\ Worker \in Tasks
  BY WorkerApart DEF Goes
<1>2. DOMAIN pc' = Tasks /\ DOMAIN hand' = Tasks
  BY <1>1 DEF UpdateInv
<1>3. pc'[Worker] = pc[Worker] /\ hand'[Worker] = hand[Worker]
  BY <1>1 DEF UpdateInv
<1>4. \A e \in Tasks : e # t => pc'[e] = pc[e] /\ hand'[e] = hand[e]
  BY <1>1 DEF UpdateInv
<1>5. pc'[t] = label
  BY <1>1 DEF UpdateInv
<1>6. HandOK'
  BY <1>3 DEF HandOK, UpdateInv
<1>7. DraftsOK'
  BY <1>4, <1>5 DEF DraftsOK, UpdateInv, Tasks, Requests
<1>8. NewsOK'
  BY DEF UpdateInv, NewsOK, news
<1>9. QED
  BY <1>2, <1>6, <1>7, <1>8 DEF UpdateInv, state

\* A step of the worker that leaves the drafts alone, like all of them.
LEMMA WorkerStays ==
  ASSUME UpdateInv, NEW label, NEW h,
         Goes(Worker, label),
         hand' = hand \/ hand' = [hand EXCEPT ![Worker] = h],
         config' \in Configuration,
         HandOK', NewsOK'
  PROVE  UpdateInv'
<1>1. /\ pc' = [pc EXCEPT ![Worker] = label]
      /\ \A e \in Editors : e \in Tasks /\ e # Worker
  BY WorkerApart DEF Goes, Requests
<1>2. DOMAIN pc' = Tasks /\ DOMAIN hand' = Tasks
  BY <1>1 DEF UpdateInv
<1>3. \A e \in Editors : pc'[e] = pc[e] /\ hand'[e] = hand[e]
  BY <1>1 DEF UpdateInv
<1>4. DraftsOK'
  BY <1>3 DEF DraftsOK, UpdateInv
<1>5. QED
  BY <1>2, <1>4 DEF UpdateInv
-----------------------------------------------------------------------------
\* An initial state satisfies the invariant.
LEMMA InitUpdate == Init => UpdateInv
<1> SUFFICES ASSUME Init PROVE UpdateInv
  OBVIOUS
<1>1. DOMAIN pc = Tasks /\ DOMAIN hand = Tasks
  BY DEF Init
<1>2. config \in Configuration
  BY ConfigsAssumption DEF Init, Configuration
<1>3. HandOK
  BY WorkerApart DEF Init, HandOK, Validated, Saved
<1>4. DraftsOK
  <2>1. \A e \in Editors : e \in Tasks /\ e # Worker
    BY WorkerApart DEF Requests
  <2>2. QED
    BY <2>1 DEF DraftsOK, Init
<1>5. NewsOK
  BY DEF NewsOK, Init, IsPrefix
<1>6. QED
  BY <1>1, <1>2, <1>3, <1>4, <1>5 DEF UpdateInv

\* A proxied request or a health check.
LEMMA ReadersStep ==
  ASSUME UpdateInv, NEW t \in Proxies \cup Watchers,
         \/ Arrive(t) \/ ProxyStep(t) \/ Watch(t) \/ WatcherStep(t) \/ Depart(t)
  PROVE  UpdateInv'
<1>1. t \in Requests /\ t \notin Editors
  BY WorkerApart
<1>2. PICK label, h :
        /\ Goes(t, label)
        /\ hand' = hand \/ hand' = [hand EXCEPT ![t] = h]
        /\ UNCHANGED <<news, file, state>>
  BY <1>1 DEF Arrive, ProxyStep, Route, Select, Connect, Answer, Refuse, Report,
     Watch, WatcherStep, Summarise, Describe, Depart
<1>3. QED
  BY <1>1, <1>2, QuietStep

\* An update is sent: it is accepted, and perhaps pushes another one out.
LEMMA SendStep ==
  ASSUME UpdateInv, NEW e \in Editors, Send(e)
  PROVE  UpdateInv'
<1>1. e \in Requests /\ e \in Tasks /\ e # Worker /\ Worker \in Tasks
  BY WorkerApart DEF Requests
<1>2. hand[e] \in Configuration
  BY DEF Send, UpdateInv, DraftsOK
<1>3. /\ pc' = [pc EXCEPT ![e] = "done"]
      /\ hand' = [hand EXCEPT ![e] = NoConfig]
      /\ UNCHANGED <<taken, file, state>>
  BY DEF Send, Goes
<1>4. NewsOK'
  <2>1. CASE UNCHANGED <<channel, lagged, accepted>>
    BY <1>3, <2>1 DEF UpdateInv, NewsOK
  <2>2. CASE /\ channel' = Pushed(channel, hand[e])
             /\ lagged' = (lagged \/ Len(channel) = ChannelSize)
             /\ accepted' = Append(accepted, hand[e])
    <3>1. /\ channel' \in Seq(Configuration)
          /\ Len(channel) # ChannelSize => channel' = Append(channel, hand[e])
      BY <1>2, <2>2, PushKeeps DEF UpdateInv, NewsOK
    <3>2. accepted' \in Seq(Configuration) /\ taken' = taken
      BY <1>2, <1>3, <2>2 DEF UpdateInv, NewsOK
    <3>3. IsPrefix(taken', accepted')
      BY <1>2, <2>2, <3>2, PrefixOfGrown DEF UpdateInv, NewsOK
    <3>4. ASSUME ~lagged' PROVE accepted' = taken' \o channel'
      <4>1. ~lagged /\ Len(channel) # ChannelSize
        BY <2>2, <3>4
      <4>2. accepted = taken \o channel /\ channel' = Append(channel, hand[e])
        BY <3>1, <4>1 DEF UpdateInv, NewsOK
      <4>3. Append(taken \o channel, hand[e]) = taken \o Append(channel, hand[e])
        <5>1. channel \in Seq(Configuration) /\ taken \in Seq(Configuration)
          BY DEF UpdateInv, NewsOK
        <5>2. QED
          BY <1>2, <5>1, AppendedToHalf
      <4>4. QED
        BY <2>2, <3>2, <4>2, <4>3
    <3>5. QED
      BY <3>1, <3>2, <3>3, <3>4 DEF UpdateInv, NewsOK
  <2>3. QED
    BY <2>1, <2>2 DEF Send
<1>5. pc'[Worker] = pc[Worker] /\ hand'[Worker] = hand[Worker]
  BY <1>1, <1>3 DEF UpdateInv
<1>6. HandOK'
  BY <1>3, <1>5 DEF UpdateInv, HandOK
<1>7. DraftsOK'
  BY <1>1, <1>3 DEF UpdateInv, DraftsOK, Tasks, Requests
<1>8. QED
  BY <1>3, <1>4, <1>6, <1>7 DEF UpdateInv, state

\* An administrator's request.
LEMMA EditorsStep ==
  ASSUME UpdateInv, NEW e \in Editors, Knock(e) \/ EditorStep(e) \/ Depart(e)
  PROVE  UpdateInv'
<1>1. e \in Requests /\ e \in Tasks
  BY WorkerApart DEF Requests
<1>2. CASE Knock(e) \/ Authorise(e) \/ Depart(e)
  <2>1. PICK label, h :
          /\ Goes(e, label) /\ label # "broadcast"
          /\ hand' = hand \/ hand' = [hand EXCEPT ![e] = h]
          /\ UNCHANGED <<news, file, state>>
    BY <1>2 DEF Knock, Authorise, Depart
  <2>2. QED
    BY <1>1, <2>1, QuietStep
<1>3. CASE Clone(e)
  <2>1. PICK cfg \in Edits(e, config) : hand' = [hand EXCEPT ![e] = cfg]
    BY <1>3 DEF Clone
  <2>2. cfg \in Configuration
    BY DEF Edits, Configuration, UpdateInv
  <2>3. hand'[e] = cfg
    BY <1>1, <2>1 DEF UpdateInv
  <2>4. Goes(e, "broadcast") /\ UNCHANGED <<news, file, state>>
    BY <1>3 DEF Clone
  <2>5. QED
    BY <1>1, <2>1, <2>2, <2>3, <2>4, QuietStep
<1>4. CASE Send(e)
  BY <1>4, SendStep
<1>5. QED
  BY <1>2, <1>3, <1>4 DEF EditorStep

\* An update is received: it is the next one that was accepted.
LEMMA ReceiveStep ==
  ASSUME UpdateInv, Receive
  PROVE  UpdateInv'
<1>1. /\ ~lagged /\ channel # << >> /\ Goes(Worker, "check")
      /\ hand' = [hand EXCEPT ![Worker] = Head(channel)]
      /\ channel' = Tail(channel) /\ taken' = Append(taken, Head(channel))
      /\ UNCHANGED <<lagged, accepted, file, state>>
  BY DEF Receive
<1>2. /\ channel \in Seq(Configuration) /\ taken \in Seq(Configuration)
      /\ accepted \in Seq(Configuration) /\ accepted = taken \o channel
  BY <1>1 DEF UpdateInv, NewsOK
<1>3. /\ Head(channel) \in Configuration
      /\ channel' \in Seq(Configuration) /\ taken' \in Seq(Configuration)
  BY <1>1, <1>2, HeadMoved
<1>4. taken \o channel = Append(taken, Head(channel)) \o Tail(channel)
  BY <1>1, <1>2, HeadMoved
<1>5. accepted' = taken' \o channel'
  BY <1>1, <1>2, <1>4
<1>6. NewsOK'
  BY <1>1, <1>2, <1>3, <1>5, PrefixOfContinued DEF NewsOK
<1>7. HandOK'
  BY <1>1, WorkerApart DEF UpdateInv, HandOK, Goes, Validated, Saved
<1>8. config' \in Configuration
  BY <1>1 DEF UpdateInv, state
<1>9. QED
  BY <1>1, <1>6, <1>7, <1>8, WorkerStays

\* A step of the worker.
LEMMA WorkersStep ==
  ASSUME UpdateInv, WorkerStep
  PROVE  UpdateInv'
<1>1. CASE Receive
  BY <1>1, ReceiveStep
<1> SUFFICES ASSUME ~Receive PROVE UpdateInv'
  BY <1>1
<1>2. UNCHANGED news /\ NewsOK'
  BY DEF WorkerStep, LagEnds, Check, Save, Build, LockConfig, LockClients,
     ReloadKeys, Swap, UpdateInv, NewsOK, news
<1>3. CASE GivesUp /\ config' \in {config, hand[Worker]}
                   /\ (config' # config => pc[Worker] = "swap")
  <2>1. HandOK'
    BY <1>3, WorkerApart DEF UpdateInv, HandOK, GivesUp, Goes, Validated, Saved
  <2>2. config' \in Configuration
    BY <1>3, ConfigsAssumption
    DEF UpdateInv, HandOK, Validated, Configuration
  <2>3. Goes(Worker, "receive") /\ hand' = [hand EXCEPT ![Worker] = NoConfig]
    BY <1>3 DEF GivesUp
  <2>4. QED
    BY <1>2, <2>1, <2>2, <2>3, WorkerStays
<1>4. CASE LagEnds
  <2>1. Goes(Worker, "ended") /\ hand' = hand /\ config' = config
    BY <1>4 DEF LagEnds, state
  <2>2. HandOK'
    BY <2>1, WorkerApart DEF UpdateInv, HandOK, Goes, Validated, Saved
  <2>3. QED
    BY <1>2, <2>1, <2>2, WorkerStays DEF UpdateInv
<1>5. CASE Check /\ ~GivesUp
  <2>1. /\ hand[Worker] \in ValidConfigs /\ Goes(Worker, "save")
        /\ hand' = hand /\ config' = config
    BY <1>5 DEF Check, state
  <2>2. HandOK'
    BY <2>1, WorkerApart DEF UpdateInv, HandOK, Goes, Validated, Saved
  <2>3. QED
    BY <1>2, <2>1, <2>2, WorkerStays DEF UpdateInv
<1>6. CASE Save /\ ~GivesUp
  <2>1. /\ pc[Worker] = "save" /\ Goes(Worker, "build")
        /\ file' = hand[Worker] /\ hand' = hand /\ config' = config
    BY <1>6 DEF Save, state
  <2>2. HandOK'
    BY <2>1, WorkerApart DEF UpdateInv, HandOK, Goes, Validated, Saved
  <2>3. QED
    BY <1>2, <2>1, <2>2, WorkerStays DEF UpdateInv
<1>7. CASE ~GivesUp /\ (Build \/ LockConfig \/ LockClients \/ ReloadKeys)
  <2>1. /\ pc[Worker] \in Saved
        /\ \E label \in Saved : Goes(Worker, label)
        /\ file' = file /\ hand' = hand /\ config' = config
    BY <1>7 DEF Build, LockConfig, LockClients, ReloadKeys, Has, Validated, Saved,
       state
  <2>2. HandOK'
    BY <2>1, WorkerApart DEF UpdateInv, HandOK, Goes, Validated, Saved
  <2>3. QED
    BY <1>2, <2>1, <2>2, WorkerStays DEF UpdateInv
<1>8. QED
  BY <1>3, <1>4, <1>5, <1>6, <1>7
  DEF WorkerStep, Check, Save, Build, ReloadKeys, Swap, LockConfig, LockClients, state

\* Every step preserves the invariant.
LEMMA NextUpdate ==
  ASSUME UpdateInv, [Next]_vars
  PROVE  UpdateInv'
<1>1. CASE \E p \in Proxies : Arrive(p) \/ ProxyStep(p) \/ Depart(p)
  BY <1>1, ReadersStep
<1>2. CASE \E w \in Watchers : Watch(w) \/ WatcherStep(w) \/ Depart(w)
  BY <1>2, ReadersStep
<1>3. CASE \E e \in Editors : Knock(e) \/ EditorStep(e) \/ Depart(e)
  BY <1>3, EditorsStep
<1>4. CASE WorkerStep
  BY <1>4, WorkersStep
<1>5. CASE UNCHANGED vars
  BY <1>5 DEF vars, news, state, UpdateInv, HandOK, DraftsOK, NewsOK
<1>6. QED
  BY <1>1, <1>2, <1>3, <1>4, <1>5 DEF Next

\* The invariant holds in every state.
LEMMA UpdateInvariant == Spec => []UpdateInv
<1>1. Init => UpdateInv
  BY InitUpdate
<1>2. UpdateInv /\ [Next]_vars => UpdateInv'
  BY NextUpdate
<1>3. QED
  BY <1>1, <1>2, PTL DEF Spec
-----------------------------------------------------------------------------
\* The values of the variables that are no queues, and what ties the key manager
\* to the configuration: they differ while the worker is between the two
\* assignments only, and a health report under way has counted today's keys.
KeysInv ==
  /\ hand \in [Tasks -> Configuration \cup {NoConfig}]
  /\ file \in Configuration \cup {NoConfig}
  /\ {config, clients, keys} \subseteq Configuration
  /\ lagged \in BOOLEAN /\ Len(channel) <= ChannelSize
  /\ \A w \in Watchers : pc[w] = "describe" => hand[w] = keys
  /\ keys = IF pc[Worker] = "swap" THEN hand[Worker] ELSE config

\* The inductive invariant.
ReloadInv == LockInv /\ UpdateInv /\ KeysInv

\* The channel never holds more than its capacity.
LEMMA PushBounded ==
  ASSUME NEW msgs \in Seq(Configuration), NEW cfg \in Configuration,
         Len(msgs) <= ChannelSize
  PROVE  Len(Pushed(msgs, cfg)) <= ChannelSize
<1>1. CASE Len(msgs) = ChannelSize
  <2>1. msgs # << >>
    BY <1>1, ChannelSizeAssumption
  <2>2. Tail(msgs) \in Seq(Configuration) /\ Len(Tail(msgs)) = Len(msgs) - 1
    BY <2>1
  <2>3. Len(Append(Tail(msgs), cfg)) = Len(msgs)
    BY <2>2
  <2>4. QED
    BY <1>1, <2>3 DEF Pushed
<1>2. CASE Len(msgs) # ChannelSize
  <2>1. Len(Append(msgs, cfg)) = Len(msgs) + 1
    OBVIOUS
  <2>2. QED
    BY <1>2, <2>1, ChannelSizeAssumption DEF Pushed
<1>3. QED
  BY <1>1, <1>2

\* A request's step leaves file, keys and configuration alone.
LEMMA RequestKeys ==
  ASSUME ReloadInv, NEW t \in Requests, NEW label, NEW h,
         Goes(t, label),
         \/ hand' = hand
         \/ hand' = [hand EXCEPT ![t] = h] /\ h \in Configuration \cup {NoConfig},
         t \in Watchers /\ label = "describe" => hand'[t] = keys,
         lagged' \in BOOLEAN, Len(channel') <= ChannelSize,
         UNCHANGED <<file, state>>
  PROVE  KeysInv'
<1>1. t \in Tasks /\ t # Worker /\ Worker \in Tasks
  BY WorkerApart
<1>2. \A u \in Tasks : u # t => pc'[u] = pc[u] /\ hand'[u] = hand[u]
  BY <1>1 DEF Goes, ReloadInv, LockInv, RolesOK, KeysInv
<1>3. pc'[t] = label
  BY <1>1 DEF Goes, ReloadInv, LockInv, RolesOK
<1>4. hand' \in [Tasks -> Configuration \cup {NoConfig}]
  BY <1>1 DEF ReloadInv, KeysInv
<1>5. \A w \in Watchers : pc'[w] = "describe" => hand'[w] = keys
  BY <1>2, <1>3, WorkerApart DEF ReloadInv, KeysInv
<1>6. keys = IF pc'[Worker] = "swap" THEN hand'[Worker] ELSE config
  BY <1>1, <1>2 DEF ReloadInv, KeysInv
<1>7. QED
  BY <1>4, <1>5, <1>6 DEF ReloadInv, KeysInv, state

\* A proxied request, a health check or an administrator's request.
LEMMA RequestsKeys ==
  ASSUME ReloadInv,
         \/ \E p \in Proxies  : Arrive(p) \/ ProxyStep(p) \/ Depart(p)
         \/ \E w \in Watchers : Watch(w) \/ WatcherStep(w) \/ Depart(w)
         \/ \E e \in Editors  : Knock(e) \/ EditorStep(e) \/ Depart(e)
  PROVE  KeysInv'
<1>1. /\ hand \in [Tasks -> Configuration \cup {NoConfig}]
      /\ {config, keys} \subseteq Configuration
      /\ lagged \in BOOLEAN /\ Len(channel) <= ChannelSize
  BY DEF ReloadInv, KeysInv
<1>2. CASE \E p \in Proxies : Arrive(p) \/ ProxyStep(p) \/ Depart(p)
  <2>1. PICK p \in Proxies : Arrive(p) \/ ProxyStep(p) \/ Depart(p)
    BY <1>2
  <2>2. p \in Requests /\ p \notin Watchers
    BY TasksAssumption DEF Requests
  <2>3. /\ \E label : Goes(p, label)
        /\ hand' = hand \/ hand' = [hand EXCEPT ![p] = NoConfig]
        /\ UNCHANGED <<news, file, state>>
    BY <2>1 DEF Arrive, ProxyStep, Route, Select, Connect, Answer, Refuse, Report,
       Depart
  <2>4. QED
    BY <1>1, <2>2, <2>3, RequestKeys DEF news
<1>3. CASE \E w \in Watchers : Watch(w) \/ WatcherStep(w) \/ Depart(w)
  <2>1. PICK w \in Watchers : Watch(w) \/ WatcherStep(w) \/ Depart(w)
    BY <1>3
  <2>2. w \in Requests /\ w \in Tasks
    BY WorkerApart
  <2>3. CASE Summarise(w)
    <3>1. /\ Goes(w, "describe") /\ hand' = [hand EXCEPT ![w] = keys]
          /\ UNCHANGED <<news, file, state>>
      BY <2>3 DEF Summarise
    <3>2. hand'[w] = keys
      BY <1>1, <2>2, <3>1
    <3>3. QED
      BY <1>1, <2>2, <3>1, <3>2, RequestKeys DEF news
  <2>4. CASE ~Summarise(w)
    <3>1. /\ \E label : Goes(w, label) /\ label # "describe"
          /\ hand' = hand \/ hand' = [hand EXCEPT ![w] = NoConfig]
          /\ UNCHANGED <<news, file, state>>
      BY <2>1, <2>4, WorkerApart DEF Watch, WatcherStep, Describe, Depart
    <3>2. QED
      BY <1>1, <2>2, <3>1, RequestKeys DEF news
  <2>5. QED
    BY <2>3, <2>4
<1>4. CASE \E e \in Editors : Knock(e) \/ EditorStep(e) \/ Depart(e)
  <2>1. PICK e \in Editors : Knock(e) \/ EditorStep(e) \/ Depart(e)
    BY <1>4
  <2>2. e \in Requests /\ e \notin Watchers /\ e \in Tasks
    BY TasksAssumption DEF Requests, Tasks
  <2>3. CASE Clone(e)
    <3>1. PICK cfg \in Edits(e, config) : hand' = [hand EXCEPT ![e] = cfg]
      BY <2>3 DEF Clone
    <3>2. cfg \in Configuration
      BY <1>1 DEF Edits, Configuration
    <3>3. Goes(e, "broadcast") /\ UNCHANGED <<news, file, state>>
      BY <2>3 DEF Clone
    <3>4. QED
      BY <1>1, <2>2, <3>1, <3>2, <3>3, RequestKeys DEF news
  <2>4. CASE Send(e)
    <3>1. /\ Goes(e, "done") /\ hand' = [hand EXCEPT ![e] = NoConfig]
          /\ UNCHANGED <<taken, file, state>>
      BY <2>4 DEF Send
    <3>2. lagged' \in BOOLEAN /\ Len(channel') <= ChannelSize
      <4>1. hand[e] \in Configuration /\ channel \in Seq(Configuration)
        BY <2>4 DEF Send, ReloadInv, UpdateInv, DraftsOK, NewsOK
      <4>2. Len(Pushed(channel, hand[e])) <= ChannelSize
        BY <1>1, <4>1, PushBounded
      <4>3. \/ channel' = channel /\ lagged' = lagged
            \/ channel' = Pushed(channel, hand[e]) /\ lagged' \in BOOLEAN
        BY <2>4 DEF Send
      <4>4. QED
        BY <1>1, <4>2, <4>3
    <3>3. QED
      BY <2>2, <3>1, <3>2, RequestKeys
  <2>5. CASE Knock(e) \/ Authorise(e) \/ Depart(e)
    <3>1. /\ \E label : Goes(e, label)
          /\ hand' = hand \/ hand' = [hand EXCEPT ![e] = NoConfig]
          /\ UNCHANGED <<news, file, state>>
      BY <2>5 DEF Knock, Authorise, Depart
    <3>2. QED
      BY <1>1, <2>2, <3>1, RequestKeys DEF news
  <2>6. QED
    BY <2>1, <2>3, <2>4, <2>5 DEF EditorStep
<1>5. QED
  BY <1>2, <1>3, <1>4

\* A step of the worker: it replaces the key manager when no health report is
\* under way, and the configuration by what it has made the key manager of.
LEMMA WorkerKeys ==
  ASSUME ReloadInv, WorkerStep
  PROVE  KeysInv'
<1>1. /\ hand \in [Tasks -> Configuration \cup {NoConfig}]
      /\ {config, clients, keys} \subseteq Configuration
      /\ file \in Configuration \cup {NoConfig}
      /\ lagged \in BOOLEAN /\ Len(channel) <= ChannelSize
      /\ pc \in [Tasks -> Labels] /\ channel \in Seq(Configuration)
  BY DEF ReloadInv, KeysInv, UpdateInv, NewsOK, LockInv, RolesOK
<1>2. /\ Worker \in Tasks /\ \A w \in Watchers : w \in Tasks /\ w # Worker
  BY WorkerApart
<1>3. /\ \A w \in Watchers : pc'[w] = pc[w] /\ hand'[w] = hand[w]
      /\ hand' \in [Tasks -> Configuration \cup {NoConfig}]
      /\ lagged' = lagged /\ Len(channel') <= ChannelSize
  <2>1. CASE Receive
    <3>1. Head(channel) \in Configuration /\ Len(Tail(channel)) <= ChannelSize
      BY <1>1, <2>1, ChannelSizeAssumption DEF Receive
    <3>2. QED
      BY <1>1, <1>2, <2>1, <3>1 DEF Receive, Goes
  <2>2. CASE ~Receive
    <3>1. UNCHANGED news /\ (hand' = hand \/ hand' = [hand EXCEPT ![Worker] = NoConfig])
          /\ \E label : pc' = [pc EXCEPT ![Worker] = label]
      BY <2>2 DEF WorkerStep, LagEnds, Check, Save, Build, LockConfig, LockClients,
         ReloadKeys, Swap, GivesUp, Goes
    <3>2. QED
      BY <1>1, <1>2, <3>1 DEF news
  <2>3. QED
    BY <2>1, <2>2
<1>4. CASE ReloadKeys /\ keys' = hand[Worker] /\ Goes(Worker, "swap") /\ hand' = hand
  <2>1. \A w \in Watchers : pc[w] # "describe"
    BY <1>4, NoReportAtReload DEF ReloadKeys, ReloadInv
  <2>2. hand[Worker] \in Configuration
    BY <1>4, ConfigsAssumption
    DEF ReloadKeys, Has, ReloadInv, UpdateInv, HandOK, Validated, Configuration
  <2>3. UNCHANGED <<file, config, clients>>
    BY <1>4 DEF ReloadKeys
  <2>4. pc'[Worker] = "swap"
    BY <1>1, <1>2, <1>4 DEF Goes
  <2>5. QED
    BY <1>1, <1>3, <1>4, <2>1, <2>2, <2>3, <2>4 DEF KeysInv
<1>5. CASE Swap
  <2>1. hand[Worker] \in Configuration
    BY <1>5, ConfigsAssumption
    DEF Swap, ReloadInv, UpdateInv, HandOK, Validated, Configuration
  <2>2. keys = hand[Worker]
    BY <1>5 DEF Swap, ReloadInv, KeysInv
  <2>3. pc'[Worker] = "receive"
    BY <1>1, <1>2, <1>5 DEF Swap, GivesUp, Goes
  <2>4. UNCHANGED <<file, keys>> /\ config' = hand[Worker] /\ clients' = hand[Worker]
    BY <1>5 DEF Swap
  <2>5. QED
    BY <1>1, <1>3, <2>1, <2>2, <2>3, <2>4 DEF ReloadInv, KeysInv
<1>6. CASE /\ UNCHANGED state /\ pc[Worker] # "swap"
           /\ \E label : Goes(Worker, label) /\ label # "swap"
           /\ file' \in Configuration \cup {NoConfig}
  <2>1. pc'[Worker] # "swap"
    BY <1>1, <1>2, <1>6 DEF Goes
  <2>2. QED
    BY <1>1, <1>3, <1>6, <2>1 DEF ReloadInv, KeysInv, state
<1>7. QED
  <2>1. hand[Worker] \in Configuration \cup {NoConfig}
    BY <1>1, <1>2
  <2>2. ASSUME ~Swap,
               ~(ReloadKeys /\ keys' = hand[Worker] /\ Goes(Worker, "swap") /\ hand' = hand)
        PROVE  /\ UNCHANGED state /\ pc[Worker] # "swap"
               /\ \E label : Goes(Worker, label) /\ label # "swap"
               /\ file' \in Configuration \cup {NoConfig}
    BY <1>1, <2>1, <2>2
    DEF WorkerStep, Receive, LagEnds, Check, Save, Build, LockConfig, LockClients,
        ReloadKeys, GivesUp, Has, state
  <2>3. QED
    BY <1>4, <1>5, <1>6, <2>2

\* The invariant holds in every state.
LEMMA ReloadInvariant == Spec => []ReloadInv
<1>1. Init => ReloadInv
  <2> SUFFICES ASSUME Init PROVE ReloadInv
    OBVIOUS
  <2>1. KeysInv
    <3>1. \A w \in Watchers : pc[w] # "describe"
      BY WorkerApart DEF Init
    <3>2. pc[Worker] # "swap"
      BY WorkerApart DEF Init
    <3>3. config \in Configuration /\ Len(channel) = 0
      BY ConfigsAssumption DEF Init, Configuration
    <3>4. hand \in [Tasks -> Configuration \cup {NoConfig}]
      BY DEF Init
    <3>5. file = config /\ clients = config /\ keys = config /\ lagged \in BOOLEAN
      BY DEF Init
    <3>6. Len(channel) <= ChannelSize
      BY <3>3, ChannelSizeAssumption
    <3>7. QED
      BY <3>1, <3>2, <3>3, <3>4, <3>5, <3>6 DEF KeysInv
  <2>2. QED
    BY <2>1, InitLocks, InitUpdate DEF ReloadInv
<1>2. ReloadInv /\ [Next]_vars => ReloadInv'
  <2> SUFFICES ASSUME ReloadInv, [Next]_vars PROVE ReloadInv'
    OBVIOUS
  <2>1. LockInv' /\ UpdateInv'
    BY NextLocks, NextUpdate DEF ReloadInv
  <2>2. CASE UNCHANGED vars
    <3>1. KeysInv'
      BY <2>2 DEF ReloadInv, KeysInv, vars, news, state
    <3>2. QED
      BY <2>1, <3>1 DEF ReloadInv
  <2>3. CASE Next
    <3>1. KeysInv'
      BY <2>3, RequestsKeys, WorkerKeys DEF Next
    <3>2. QED
      BY <2>1, <3>1 DEF ReloadInv
  <2>4. QED
    BY <2>2, <2>3
<1>3. QED
  BY <1>1, <1>2, PTL DEF Spec
-----------------------------------------------------------------------------
\* Types are kept, and the channel holds no more than its capacity (state.rs).
THEOREM ReloadTypeOK == Spec => []TypeOK
<1>1. ReloadInv => TypeOK
  BY DEF ReloadInv, LockInv, RolesOK, QueueInv, Ordered, UpdateInv, NewsOK, KeysInv,
     TypeOK
<1>2. QED
  BY <1>1, ReloadInvariant, PTL

\* A health report speaks of one configuration, although it takes the two locks
\* one after the other: the key manager cannot be replaced while it has counted
\* keys, nor the configuration be read before it has caught up (detailed_health).
THEOREM ReportsOfOneConfiguration == Spec => []ReportsAgree
<1>1. ReloadInv => ReportsAgree
  <2> SUFFICES ASSUME ReloadInv, NEW w \in Watchers, Has(w, "describe", "config")
               PROVE  hand[w] = config
    BY DEF ReportsAgree
  <2>1. pc[Worker] # "swap"
    BY NoReaderAtSwap DEF ReloadInv
  <2>2. QED
    BY <2>1 DEF Has, ReloadInv, KeysInv
<1>2. QED
  BY <1>1, ReloadInvariant, PTL

\* Whatever tasks wait for each other for good, an admin request is among them
\* that waits for the configuration with a guard in its hands: the proxy loop and
\* the worker never deadlock, for any number of tasks (admin.rs, proxy.rs).
THEOREM DeadlocksNeedAdmins == Spec => []DeadlockNeedsAdminRequest
<1>1. ReloadInv => DeadlockNeedsAdminRequest
  BY CircleHasAdmin DEF ReloadInv, DeadlockNeedsAdminRequest
<1>2. QED
  BY <1>1, ReloadInvariant, PTL

\* The worker receives the accepted updates in the order of their acceptance,
\* without a gap, for any number of administrators and any capacity (lib.rs).
THEOREM UpdatesInOrder == Spec => []NoUpdateSkipped
<1>1. ReloadInv => NoUpdateSkipped
  BY DEF ReloadInv, UpdateInv, NewsOK, NoUpdateSkipped
<1>2. QED
  BY <1>1, ReloadInvariant, PTL

\* Only a configuration that was validated and is the file's is swapped in
\* (reload_state_from_config).
THEOREM SwappedWasSaved == Spec => InstalledIsSaved
<1>1. ReloadInv /\ [Next]_vars =>
        (config' # config => config' \in ValidConfigs /\ config' = file)
  <2> SUFFICES ASSUME ReloadInv, [Next]_vars, config' # config
               PROVE  config' \in ValidConfigs /\ config' = file
    OBVIOUS
  <2>1. Swap
    BY DEF Next, vars, state, Arrive, ProxyStep, Route, Select, Connect, Answer,
       Refuse, Report, Watch, WatcherStep, Summarise, Describe, Knock, EditorStep,
       Authorise, Clone, Send, Depart, WorkerStep, Receive, LagEnds, Check, Save,
       Build, LockConfig, LockClients, ReloadKeys
  <2>2. QED
    BY <2>1 DEF Swap, ReloadInv, UpdateInv, HandOK, Validated, Saved
<1>2. QED
  BY <1>1, ReloadInvariant, PTL DEF Spec, InstalledIsSaved
=============================================================================
