---------------------------- MODULE InMemoryStore ----------------------------
(***************************************************************************)
(* The in-memory key store (storage/memory.rs, storage/key_state.rs): one  *)
(* record per configured key and one rotation counter per group id.  Every *)
(* operation runs under the store's own lock, so each is one step; the     *)
(* operators below are the store's part of an action of the proxy.         *)
(***************************************************************************)
EXTENDS Naturals

CONSTANTS
  Keys,                \* every API key a configuration may name
  Groups,              \* the names a key group may have
  DefaultGroupId       \* DEFAULT_GROUP_ID, the counter of group-less requests

VARIABLES
  keyStates,           \* key -> [group, blocked, failures], configured keys
  counters             \* group id -> next rotation index

storeVars == <<keyStates, counters>>

KeyState == [group : Groups, blocked : BOOLEAN, failures : Nat]

CounterId == Groups \cup {DefaultGroupId}

StoreTypeOK ==
  /\ DOMAIN keyStates \subseteq Keys
  /\ keyStates \in [DOMAIN keyStates -> KeyState]
  /\ counters \in [CounterId -> Nat]
-----------------------------------------------------------------------------
\* InMemoryStore::new: every key fresh, no counter yet (one appears at 0).
FreshKeyStates(keyInfo) ==
  [k \in DOMAIN keyInfo |->
     [group |-> keyInfo[k], blocked |-> FALSE, failures |-> 0]]

FreshCounters == [c \in CounterId |-> 0]

\* get_key_state followed by is_available, as the rotation reads it: a key
\* the store does not know counts as available.
SeenAvailable(k) == k \in DOMAIN keyStates => ~keyStates[k].blocked

\* get_next_rotation_index: the caller gets the value before the increment.
NextRotationIndex(id) ==
  /\ counters' = [counters EXCEPT ![id] = @ + 1]
  /\ UNCHANGED keyStates

\* Mutant: the threshold compared with the count before this failure.
RecordFailureLate(state, terminal, maxFailures) ==
  [state EXCEPT !.failures = @ + 1,
                !.blocked = @ \/ terminal \/ state.failures >= maxFailures]

\* Mutant: a failure that is not terminal recomputes the flag from scratch.
RecordFailureUnblocks(state, terminal, maxFailures) ==
  [state EXCEPT !.failures = @ + 1,
                !.blocked = terminal \/ state.failures + 1 >= maxFailures]

\* KeyState::record_failure: count it, and block the key when the failure is
\* terminal or the count has reached the threshold.
RecordFailure(state, terminal, maxFailures) ==
  [state EXCEPT !.failures = @ + 1,
                !.blocked = \/ @
                            \/ terminal
                            \/ state.failures + 1 >= maxFailures]

\* update_failure_state on a key the store knows.
UpdateFailureState(k, terminal, maxFailures) ==
  /\ keyStates' =
       [keyStates EXCEPT ![k] = RecordFailure(@, terminal, maxFailures)]
  /\ UNCHANGED counters

\* set_key_rate_limited: the duration is not used, the key is blocked for as
\* long as this store lives; an unknown key is ignored.
SetKeyRateLimited(k) ==
  /\ keyStates' = IF k \in DOMAIN keyStates
                  THEN [keyStates EXCEPT ![k].blocked = TRUE]
                  ELSE keyStates
  /\ UNCHANGED counters
=============================================================================
