----------------------------- MODULE KeyLedger -----------------------------
(***************************************************************************)
(* What a key store that several processes share promises them: one ledger *)
(* of the keys, whose every entry is made at once.  A user is given only a *)
(* key that is listed and not withdrawn at that moment, by whomever.  Each *)
(* use is charged at most once, no charge is lost, and whether it withdraws *)
(* the key follows from the count that very charge made.  A key returns    *)
(* when a time limit on it is over, or when a user that found the ledger   *)
(* empty founds it late; a user may vanish between any two entries.        *)
(***************************************************************************)
EXTENDS Naturals

CONSTANTS
  Users,
  Keys,
  NoKey,
  MaxFailures          \* charges that withdraw a key

VARIABLES
  listed,              \* the keys of the ledger
  withdrawn,           \* those that are not handed out
  limited,             \* those with a time limit on their entry
  charges,             \* key -> failures charged to it
  use,                 \* user -> the key it uses and how far the use has come
  founders             \* the users that found the ledger empty

entries == <<listed, withdrawn, limited, charges>>
vars == <<entries, use, founders>>

NoUse == [key |-> NoKey, stage |-> "none"]

TypeOK ==
  /\ listed \subseteq Keys /\ withdrawn \subseteq Keys /\ limited \subseteq Keys
  /\ charges \in [Keys -> Nat]
  /\ use \in [Users -> [key   : Keys \cup {NoKey},
                        stage : {"none", "holds", "charged", "due"}]]
  /\ founders \subseteq Users

Init ==
  /\ listed = {} /\ withdrawn = {} /\ limited = {}
  /\ charges = [k \in Keys |-> 0]
  /\ use = [u \in Users |-> NoUse]
  /\ founders = {}
-----------------------------------------------------------------------------
FindEmpty(u) ==
  /\ listed = {}
  /\ founders' = founders \cup {u}
  /\ UNCHANGED <<entries, use>>

\* Listed anew, a key is free and owes nothing; a time limit stays on it.
Found(u, new) ==
  /\ u \in founders
  /\ founders' = founders \ {u}
  /\ listed' = listed \cup new
  /\ withdrawn' = withdrawn \ new
  /\ charges' = [k \in Keys |-> IF k \in new THEN 0 ELSE charges[k]]
  /\ UNCHANGED <<limited, use>>

CheckOut(u, k) ==
  /\ use[u] = NoUse
  /\ k \in listed \ withdrawn
  /\ use' = [use EXCEPT ![u] = [key |-> k, stage |-> "holds"]]
  /\ UNCHANGED <<entries, founders>>

Due(terminal, failures) == terminal \/ failures >= MaxFailures

Charge(u, terminal) ==
  LET k == use[u].key
      f == charges[k] + 1
  IN  /\ use[u].stage = "holds"
      /\ charges' = [charges EXCEPT ![k] = f]
      /\ use' = [use EXCEPT ![u].stage =
                   IF Due(terminal, f) THEN "due" ELSE "charged"]
      /\ UNCHANGED <<listed, withdrawn, limited, founders>>

Withdraw(u) ==
  /\ use[u].stage = "due"
  /\ withdrawn' = withdrawn \cup {use[u].key}
  /\ use' = [use EXCEPT ![u] = NoUse]
  /\ UNCHANGED <<listed, limited, charges, founders>>

\* Withdrawn until a time limit is over, and not charged.
WithdrawForNow(u) ==
  /\ use[u].stage = "holds"
  /\ withdrawn' = withdrawn \cup {use[u].key}
  /\ limited' = limited \cup {use[u].key}
  /\ use' = [use EXCEPT ![u] = NoUse]
  /\ UNCHANGED <<listed, charges, founders>>

\* The time limit is over: the key is free again and owes nothing.
Return(k) ==
  /\ k \in limited
  /\ limited' = limited \ {k}
  /\ withdrawn' = withdrawn \ {k}
  /\ charges' = [charges EXCEPT ![k] = 0]
  /\ UNCHANGED <<listed, use, founders>>

\* The use ends, or the user vanishes with what it was about to enter.
Leave(u) ==
  /\ use' = [use EXCEPT ![u] = NoUse]
  /\ founders' = founders \ {u}
  /\ UNCHANGED entries

Next ==
  \/ \E u \in Users :
       \/ FindEmpty(u)
       \/ \E new \in SUBSET Keys : Found(u, new)
       \/ \E k \in Keys : CheckOut(u, k)
       \/ \E terminal \in BOOLEAN : Charge(u, terminal)
       \/ Withdraw(u) \/ WithdrawForNow(u) \/ Leave(u)
  \/ \E k \in Keys : Return(k)

Spec == Init /\ [][Next]_vars
=============================================================================
