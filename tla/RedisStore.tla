----------------------------- MODULE RedisStore -----------------------------
(***************************************************************************)
(* The Redis key store (storage/redis.rs): instances of the proxy that     *)
(* share one Redis.  Each command, and each MULTI pipeline, is a step of   *)
(* its own; between two of them other instances run, hashes expire, and    *)
(* the instance may crash or lose its connection.                          *)
(*                                                                         *)
(* An instance serves one request at a time here.  A process with several  *)
(* requests in flight counts as several instances: its key manager lock    *)
(* only keeps them further apart.                                          *)
(***************************************************************************)
EXTENDS Naturals, FiniteSets

CONSTANTS
  Instances,           \* the processes that share the Redis
  Keys,                \* every API key a configuration may name
  Configs,             \* the sets of keys an instance may be configured with
  MaxFailures,         \* max_failures_threshold, the same everywhere
  TrueText,            \* what the client library writes for the bool true
  NoKey,               \* no key checked out
  NoHash,              \* Redis has no key_state of this key
  MaxInterrupted       \* bound of the model: blocks lost, per key

ASSUME ConfigsAssumption == Configs \subseteq (SUBSET Keys) \ {{}}
ASSUME NumbersAssumption == MaxFailures \in Nat /\ MaxInterrupted \in Nat
ASSUME InstancesAssumption == IsFiniteSet(Instances)
ASSUME NoKeyAssumption == NoKey \notin Keys

VARIABLES
  members,             \* the set rotation_keys
  hash,                \* key -> its hash key_state:<key>
  inst,                \* instance -> where it is and what it carries
  interrupted          \* history: key -> blocks that a fault kept from Redis

redis == <<members, hash>>
vars == <<redis, inst, interrupted>>

\* A field that was never written, or went with an expiry, is absent or 0.
KeyHash ==
  [blocked : {"absent", "false", TrueText}, failures : Nat, expires : BOOLEAN]

ASSUME NoHashAssumption == NoHash \notin KeyHash

EmptyHash == [blocked |-> "absent", failures |-> 0, expires |-> FALSE]

InstanceState ==
  [pc : {"down", "scard", "init", "ready", "probe", "send", "count", "stamp",
         "block", "limit"},
   keys     : Configs \cup {{}},         \* key_info_map, {} before the start
   new      : Configs \cup {{}},         \* the map of the store being built
   left     : SUBSET Keys,               \* candidates not probed yet
   key      : Keys \cup {NoKey},
   terminal : BOOLEAN,
   block    : BOOLEAN]                   \* should_block

\* Types; besides, an instance probes only keys of the rotation set that it
\* knows, and nothing is recorded in a Redis that was never initialised.
TypeOK ==
  /\ members \subseteq Keys
  /\ hash \in [Keys -> KeyHash \cup {NoHash}]
  /\ inst \in [Instances -> InstanceState]
  /\ interrupted \in [Keys -> 0..MaxInterrupted]
  /\ \A i \in Instances : inst[i].left \subseteq inst[i].keys \cap members
  /\ members = {} => \A k \in Keys : hash[k] = NoHash

Init ==
  /\ members = {}
  /\ hash = [k \in Keys |-> NoHash]
  /\ inst = [i \in Instances |->
               [pc |-> "down", keys |-> {}, new |-> {}, left |-> {},
                key |-> NoKey, terminal |-> FALSE, block |-> FALSE]]
  /\ interrupted = [k \in Keys |-> 0]
-----------------------------------------------------------------------------
At(i, label) == inst[i].pc = label

\* What a command that writes fields finds: it creates a missing hash.
Fields(k) == IF hash[k] = NoHash THEN EmptyHash ELSE hash[k]

\* parse_key_state: only the text "true" reads as blocked.
Blocked(k) == hash[k] # NoHash /\ hash[k].blocked = "true"

\* The attempt is over; the loop goes round or the next request comes.
Serves(i) ==
  inst' = [inst EXCEPT ![i] =
            [@ EXCEPT !.pc = "ready", !.left = {}, !.key = NoKey,
                      !.terminal = FALSE, !.block = FALSE]]
-----------------------------------------------------------------------------
\* KeyManager::new at the start of an instance, KeyManager::reload later.
Build(i) ==
  /\ inst[i].pc \in {"down", "ready"}
  /\ \E cfg \in Configs :
       inst' = [inst EXCEPT ![i] = [@ EXCEPT !.pc = "scard", !.new = cfg]]
  /\ UNCHANGED <<redis, interrupted>>

\* The new store and the map it was built for are taken into use.
Adopt(i) ==
  inst' = [inst EXCEPT ![i] =
            [@ EXCEPT !.pc = "ready", !.keys = inst[i].new, !.new = {}]]

\* SCARD: a Redis that holds keys is taken as it is ...
FindsKeys(i) ==
  /\ At(i, "scard")
  /\ members # {}
  /\ Adopt(i)
  /\ UNCHANGED <<redis, interrupted>>

\* ... and an empty one is to be initialised.
FindsNone(i) ==
  /\ At(i, "scard")
  /\ members = {}
  /\ inst' = [inst EXCEPT ![i].pc = "init"]
  /\ UNCHANGED <<redis, interrupted>>

\* initialize_redis_from_config: one MULTI, whatever happened since SCARD.
Initialise(i) ==
  /\ At(i, "init")
  /\ members' = members \cup inst[i].new
  /\ hash' = [k \in Keys |->
                IF k \in inst[i].new
                THEN [Fields(k) EXCEPT !.blocked = "false", !.failures = 0]
                ELSE hash[k]]
  /\ Adopt(i)
  /\ UNCHANGED interrupted
-----------------------------------------------------------------------------
\* Mutant: the keys of the configuration, whether Redis has them or not.
CandidatesUnlisted(i) == inst[i].keys

\* get_next_available_key_info: SMEMBERS, filtered by the instance's map.
Candidates(i) == inst[i].keys \cap members

\* SMEMBERS, and INCR for the start of the walk: others draw from the counter
\* too, so any candidate may come first.
List(i) ==
  /\ At(i, "ready")
  /\ Candidates(i) # {}
  /\ inst' = [inst EXCEPT ![i] = [@ EXCEPT !.pc = "probe",
                                           !.left = Candidates(i)]]
  /\ UNCHANGED <<redis, interrupted>>

\* Mutant: the first candidate is taken as it comes.
TakeKeyUnread(i, k) ==
  /\ At(i, "probe") /\ k \in inst[i].left
  /\ inst' = [inst EXCEPT ![i] = [@ EXCEPT !.pc = "send", !.left = {},
                                           !.key = k]]
  /\ UNCHANGED <<redis, interrupted>>

\* HGETALL of a candidate that is free, or that Redis has no hash of.
TakeKey(i, k) ==
  /\ At(i, "probe") /\ k \in inst[i].left
  /\ ~Blocked(k)
  /\ inst' = [inst EXCEPT ![i] = [@ EXCEPT !.pc = "send", !.left = {},
                                           !.key = k]]
  /\ UNCHANGED <<redis, interrupted>>

SkipKey(i, k) ==
  /\ At(i, "probe") /\ k \in inst[i].left
  /\ Blocked(k) /\ inst[i].left # {k}
  /\ inst' = [inst EXCEPT ![i].left = @ \ {k}]
  /\ UNCHANGED <<redis, interrupted>>

\* The last candidate is blocked as well.
GiveUp(i) ==
  /\ At(i, "probe")
  /\ \E k \in inst[i].left : Blocked(k) /\ inst[i].left = {k}
  /\ Serves(i)
  /\ UNCHANGED <<redis, interrupted>>

\* The response, or the error, goes to the client.
Answer(i) ==
  /\ At(i, "send")
  /\ Serves(i)
  /\ UNCHANGED <<redis, interrupted>>

\* The response costs the key a failure, for good when it is terminal ...
Refuse(i, terminal) ==
  /\ At(i, "send")
  /\ inst' = [inst EXCEPT ![i] = [@ EXCEPT !.pc = "count",
                                           !.terminal = terminal]]
  /\ UNCHANGED <<redis, interrupted>>

\* ... or asks to wait.
Limit(i) ==
  /\ At(i, "send")
  /\ inst' = [inst EXCEPT ![i].pc = "limit"]
  /\ UNCHANGED <<redis, interrupted>>
-----------------------------------------------------------------------------
\* Mutant: one failure more than configured is let through.
ShouldBlockLate(terminal, failures) == terminal \/ failures > MaxFailures

ShouldBlock(terminal, failures) == terminal \/ failures >= MaxFailures

\* update_failure_state, HINCRBY: the decision rests on the count it returns.
CountFailure(i) ==
  LET k == inst[i].key
      f == Fields(k).failures + 1
  IN  /\ At(i, "count")
      /\ hash' = [hash EXCEPT ![k] = [Fields(k) EXCEPT !.failures = f]]
      /\ inst' = [inst EXCEPT ![i] =
                   [@ EXCEPT !.pc = "stamp",
                             !.block = ShouldBlock(inst[i].terminal, f)]]
      /\ UNCHANGED <<members, interrupted>>

\* Mutant: should_block is written whatever it is.
StampAndFlag(i) ==
  LET k == inst[i].key
  IN  /\ At(i, "stamp")
      /\ hash' = [hash EXCEPT ![k] =
                   [Fields(k) EXCEPT !.blocked =
                      IF inst[i].block THEN @ ELSE "false"]]
      /\ IF inst[i].block
         THEN inst' = [inst EXCEPT ![i].pc = "block"]
         ELSE Serves(i)
      /\ UNCHANGED <<members, interrupted>>

\* HSET last_failure.
Stamp(i) ==
  /\ At(i, "stamp")
  /\ hash' = [hash EXCEPT ![inst[i].key] = Fields(inst[i].key)]
  /\ IF inst[i].block
     THEN inst' = [inst EXCEPT ![i].pc = "block"]
     ELSE Serves(i)
  /\ UNCHANGED <<members, interrupted>>

\* HSET is_blocked.
Block(i) ==
  LET k == inst[i].key
  IN  /\ At(i, "block")
      /\ hash' = [hash EXCEPT ![k] = [Fields(k) EXCEPT !.blocked = TrueText]]
      /\ Serves(i)
      /\ UNCHANGED <<members, interrupted>>

\* set_key_rate_limited: HSET and EXPIRE in one MULTI.  The request sleeps and
\* goes on, which is all the same to Redis.
SetRateLimited(i) ==
  LET k == inst[i].key
  IN  /\ At(i, "limit")
      /\ hash' = [hash EXCEPT ![k] = [Fields(k) EXCEPT !.blocked = TrueText,
                                                       !.expires = TRUE]]
      /\ Serves(i)
      /\ UNCHANGED <<members, interrupted>>

\* The duration of a rate limit is over: the whole hash goes.
Expire(k) ==
  /\ hash[k] # NoHash /\ hash[k].expires
  /\ hash' = [hash EXCEPT ![k] = NoHash]
  /\ UNCHANGED <<members, inst, interrupted>>
-----------------------------------------------------------------------------
\* A block that was decided and has not reached Redis is lost.
LosesBlock(i) ==
  IF inst[i].block
  THEN /\ interrupted[inst[i].key] < MaxInterrupted
       /\ interrupted' = [interrupted EXCEPT ![inst[i].key] = @ + 1]
  ELSE UNCHANGED interrupted

\* A command fails or the client goes away: the request ends where it is.  A
\* store under construction is given up; at the start that ends the process.
Break(i) ==
  /\ inst[i].pc \notin {"down", "ready"}
  /\ LosesBlock(i)
  /\ inst' = [inst EXCEPT ![i] =
               [@ EXCEPT !.pc = IF inst[i].keys = {} THEN "down" ELSE "ready",
                         !.new = {}, !.left = {}, !.key = NoKey,
                         !.terminal = FALSE, !.block = FALSE]]
  /\ UNCHANGED redis

\* The process ends; Redis stays.
Crash(i) ==
  /\ ~At(i, "down")
  /\ LosesBlock(i)
  /\ inst' = [inst EXCEPT ![i] =
               [pc |-> "down", keys |-> {}, new |-> {}, left |-> {},
                key |-> NoKey, terminal |-> FALSE, block |-> FALSE]]
  /\ UNCHANGED redis

Next ==
  \/ \E i \in Instances :
       \/ Build(i) \/ FindsKeys(i) \/ FindsNone(i) \/ Initialise(i)
       \/ List(i) \/ GiveUp(i)
       \/ \E k \in Keys : TakeKey(i, k) \/ SkipKey(i, k)
       \/ Answer(i) \/ Limit(i)
       \/ \E terminal \in BOOLEAN : Refuse(i, terminal)
       \/ CountFailure(i) \/ Stamp(i) \/ Block(i) \/ SetRateLimited(i)
       \/ Break(i) \/ Crash(i)
  \/ \E k \in Keys : Expire(k)

Spec == Init /\ [][Next]_vars
-----------------------------------------------------------------------------
\* A threshold of 0 acts like 1.
Threshold == IF MaxFailures = 0 THEN 1 ELSE MaxFailures

\* However many instances count failures of one key at the same time, none is
\* lost and the key is blocked in time: past the threshold each instance adds
\* at most the failure it had in flight, and one for each block that a fault
\* kept from Redis (update_failure_state).
OverrunBounded ==
  \A k \in Keys :
    Fields(k).failures <=
      (Threshold - 1) + Cardinality(Instances) + interrupted[k]

\* A blocked key returns only when a rate limit on it expires, or when an
\* instance that found Redis empty initialises it late: no failure, success,
\* restart or reload of any instance unblocks it.
OnlyExpiryUnblocks ==
  [][\A k \in Keys :
       Blocked(k) /\ ~Blocked(k)' =>
         \/ hash[k].expires /\ hash'[k] = NoHash
         \/ \E i \in Instances : At(i, "init") /\ k \in inst[i].new]_vars

\* How far an instance's use of its key has come.
Stage(s) ==
  CASE s.pc \in {"send", "count", "limit"} -> "holds"
    [] s.pc = "stamp" /\ ~s.block -> "charged"
    [] s.pc = "block" \/ (s.pc = "stamp" /\ s.block) -> "due"
    [] OTHER -> "none"

\* What Redis says of the keys, and what the instances have read and not yet
\* written, as a ledger.
Ledger == INSTANCE KeyLedger WITH
  Users     <- Instances,
  listed    <- members,
  withdrawn <- {k \in Keys : Blocked(k)},
  limited   <- {k \in Keys : hash[k] # NoHash /\ hash[k].expires},
  charges   <- [k \in Keys |-> Fields(k).failures],
  use       <- [i \in Instances |->
                  [key |-> inst[i].key, stage |-> Stage(inst[i])]],
  founders  <- {i \in Instances : At(i, "init")}

\* The store takes several commands for one entry, and other instances, expiries
\* and faults come between them; all the same each use of a key is one of a
\* ledger whose entries are made at once: no key is handed out withdrawn,
\* charges add up, and the charge that is due withdraws the key.
ImplementsLedger == Ledger!Spec
=============================================================================
