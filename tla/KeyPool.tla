------------------------------ MODULE KeyPool ------------------------------
(***************************************************************************)
(* What the key manager promises to the requests, whatever the rotation,   *)
(* the locks and the counters do: a pool of usable keys.  A request is     *)
(* given only a key that is usable at that moment; a key leaves the pool   *)
(* only on the word of a request that used it, when that request lets go   *)
(* of it; and only a reload ever puts a key (back) into the pool.          *)
(***************************************************************************)
CONSTANTS Requests, Keys, NoKey

VARIABLES
  usable,              \* the keys that may be handed out
  inUse                \* request -> the key it was given and still answers for

TypeOK ==
  /\ usable \subseteq Keys
  /\ inUse \in [Requests -> Keys \cup {NoKey}]

Init ==
  /\ usable \subseteq Keys
  /\ inUse = [r \in Requests |-> NoKey]

CheckOut(r, k) ==
  /\ inUse[r] = NoKey
  /\ k \in usable
  /\ inUse' = [inUse EXCEPT ![r] = k]
  /\ UNCHANGED usable

\* The request lets go of its key, and may retire it.
LetGo(r) ==
  /\ inUse[r] # NoKey
  /\ inUse' = [inUse EXCEPT ![r] = NoKey]
  /\ usable' \in {usable, usable \ {inUse[r]}}

Reload ==
  /\ usable' \in SUBSET Keys
  /\ UNCHANGED inUse

Next ==
  \/ \E r \in Requests, k \in Keys : CheckOut(r, k)
  \/ \E r \in Requests : LetGo(r)
  \/ Reload

Spec == Init /\ [][Next]_<<usable, inUse>>
=============================================================================
