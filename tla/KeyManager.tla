----------------------------- MODULE KeyManager -----------------------------
(***************************************************************************)
(* The key manager (key_manager.rs) over the in-memory store, and the      *)
(* round-robin strategy (core/key_rotation.rs) it selects keys with.       *)
(***************************************************************************)
EXTENDS InMemoryStore, Sequences, FiniteSets

CONSTANTS
  Models,              \* the models a request may name; a request that names
                       \* none is one whose model no group serves
  NoGroup,             \* no group serves the request's model
  SortedKeys           \* SUBSET Keys -> its keys in the order of sort_by

\* sort_by on the key strings, a library call: it permutes its input.
ASSUME SortedKeysAssumption ==
  /\ IsFiniteSet(Keys)
  /\ \A S \in SUBSET Keys :
       /\ SortedKeys[S] \in [1..Cardinality(S) -> S]
       /\ \A k \in S : \E i \in 1..Cardinality(S) : SortedKeys[S][i] = k

ASSUME NoGroupAssumption == NoGroup \notin Groups

VARIABLES
  keyInfo,             \* key_info_map: configured key -> its group
  maxFailures          \* max_failures_threshold

managerVars == <<keyInfo, maxFailures, storeVars>>

\* A configuration: its groups in file order, each with its keys and the
\* models it serves, and the failure threshold (3 when the file has none).
Group == [name : Groups, keys : SUBSET Keys, aliases : SUBSET Models]

Config == [groups : Seq(Group), maxFailures : Nat]

ManagerTypeOK ==
  /\ StoreTypeOK
  /\ keyInfo \in [DOMAIN keyInfo -> Groups]
  /\ DOMAIN keyInfo = DOMAIN keyStates
  /\ maxFailures \in Nat
-----------------------------------------------------------------------------
\* AppConfig::get_group_for_model: the first group with this alias.
GroupForModel(cfg, model) ==
  LET serves(i) == model \in cfg.groups[i].aliases
  IN  IF \E i \in DOMAIN cfg.groups : serves(i)
      THEN cfg.groups[CHOOSE i \in DOMAIN cfg.groups :
             serves(i) /\ \A j \in DOMAIN cfg.groups : serves(j) => i <= j].name
      ELSE NoGroup

ConfiguredKeys(cfg) == UNION {cfg.groups[i].keys : i \in DOMAIN cfg.groups}

\* build_key_info_map: every configured key with its group (the validation of
\* a configuration lets only one group name a key).
BuildKeyInfoMap(cfg) ==
  [k \in ConfiguredKeys(cfg) |->
     cfg.groups[CHOOSE i \in DOMAIN cfg.groups : k \in cfg.groups[i].keys].name]

\* KeyManager::new: a map, a fresh store and a threshold for a configuration.
NewKeyManager(cfg) ==
  /\ keyInfo     = BuildKeyInfoMap(cfg)
  /\ keyStates   = FreshKeyStates(BuildKeyInfoMap(cfg))
  /\ counters    = FreshCounters
  /\ maxFailures = cfg.maxFailures

\* Mutant: the map is swapped and the old store kept.
ReloadKeyManagerMapOnly(cfg) ==
  /\ keyInfo'     = BuildKeyInfoMap(cfg)
  /\ maxFailures' = cfg.maxFailures
  /\ UNCHANGED storeVars

\* KeyManager::reload: the same, swapped in under the write lock.
ReloadKeyManager(cfg) ==
  /\ keyInfo'     = BuildKeyInfoMap(cfg)
  /\ keyStates'   = FreshKeyStates(BuildKeyInfoMap(cfg))
  /\ counters'    = FreshCounters
  /\ maxFailures' = cfg.maxFailures
-----------------------------------------------------------------------------
\* filter_keys_by_group, then retain: the keys of the group (of every group
\* when there is none) that the store lists as well.
CandidateKeys(group) ==
  {k \in DOMAIN keyInfo \cap DOMAIN keyStates :
     group = NoGroup \/ keyInfo[k] = group}

\* Mutant: one counter for every group.
GroupIdShared(group) == DefaultGroupId

GroupId(group) == IF group = NoGroup THEN DefaultGroupId ELSE group

\* The i-th candidate of the ring select_key walks.
CandidateAt(cands, i) == SortedKeys[cands][(i % Cardinality(cands)) + 1]
=============================================================================
