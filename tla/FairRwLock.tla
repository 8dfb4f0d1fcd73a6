----------------------------- MODULE FairRwLock -----------------------------
(***************************************************************************)
(* tokio::sync::RwLock as src/ uses it: one fair queue per lock.  A queue  *)
(* maps each entry, a guard or a pending request for one, to the entries   *)
(* that stood in the queue when it asked and still do.  A writer holds the *)
(* lock when none is ahead of it, a reader when no writer is: a reader     *)
(* that asks after a waiting writer waits too.                             *)
(***************************************************************************)
EXTENDS Naturals

\* An entry carries the await it was made at: a task may hold two guards.
Reader(t, await) == [task |-> t, mode |-> "read", at |-> await]
Writer(t, await) == [task |-> t, mode |-> "write", at |-> await]

Unlocked == [e \in {} |-> {}]

Ask(q, e) == [x \in DOMAIN q \cup {e} |-> IF x = e THEN DOMAIN q ELSE q[x]]

\* Guards are dropped, or requests for them given up.
Drop(q, gone) == [x \in DOMAIN q \ gone |-> q[x] \ gone]

\* The entries that e waits for.
Blockers(q, e) == {x \in q[e] : x.mode = "write" \/ e.mode = "write"}

Granted(q, e) == Blockers(q, e) = {}

EntriesOf(q, t) == {e \in DOMAIN q : e.task = t}

Holds(q, t) == \E e \in EntriesOf(q, t) : Granted(q, e)
Waits(q, t) == \E e \in EntriesOf(q, t) : ~Granted(q, e)

\* Whether t waits for an entry of somebody in S (itself included).
WaitsFor(q, t, S) ==
  \E e \in EntriesOf(q, t) : \E x \in Blockers(q, e) : x.task \in S
=============================================================================
