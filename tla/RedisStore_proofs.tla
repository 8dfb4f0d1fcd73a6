-------------------------- MODULE RedisStore_proofs --------------------------
(***************************************************************************)
(* The Redis store for any number of instances, keys and configurations,   *)
(* any threshold and any number of faults.                                 *)
(***************************************************************************)
EXTENDS RedisStore, FiniteSetTheorems, TLAPS

\* What an instance's local variables say about where it is, when the rotation
\* set is m.
Consistent(s, m) ==
  /\ s \in InstanceState
  /\ s.key \in m \cup {NoKey}
  /\ s.key # NoKey <=> s.pc \in {"send", "count", "stamp", "block", "limit"}
  /\ s.block => s.pc \in {"stamp", "block"}
  /\ s.pc = "block" => s.block
  /\ s.left # {} => s.pc = "probe"
  /\ s.left \subseteq s.keys \cap m
  /\ s.pc \in {"scard", "init"} => s.new # {}

LocalInv == TypeOK /\ \A i \in Instances : Consistent(inst[i], members)

\* The types of what the instances share.
SharedOK ==
  /\ members \subseteq Keys
  /\ hash \in [Keys -> KeyHash \cup {NoHash}]
  /\ interrupted \in [Keys -> 0..MaxInterrupted]
  /\ members = {} => \A k \in Keys : hash[k] = NoHash

\* What each action does to the variables r of the instance that takes it.
Building(r, cfg) == [r EXCEPT !.pc = "scard", !.new = cfg]

Adopted(r) == [r EXCEPT !.pc = "ready", !.keys = r.new, !.new = {}]

Listed(r, m) == [r EXCEPT !.pc = "probe", !.left = r.keys \cap m]

Taken(r, k) == [r EXCEPT !.pc = "send", !.left = {}, !.key = k]

Skipped(r, k) == [r EXCEPT !.left = @ \ {k}]

Moved(r, label) == [r EXCEPT !.pc = label]

Refused(r, t) == [r EXCEPT !.pc = "count", !.terminal = t]

Counted(r, b) == [r EXCEPT !.pc = "stamp", !.block = b]

Ended(r) == [r EXCEPT !.pc = "ready", !.left = {}, !.key = NoKey,
                      !.terminal = FALSE, !.block = FALSE]

Broken(r, label) == [r EXCEPT !.pc = label, !.new = {}, !.left = {},
                              !.key = NoKey, !.terminal = FALSE, !.block = FALSE]

Down == [pc |-> "down", keys |-> {}, new |-> {}, left |-> {},
         key |-> NoKey, terminal |-> FALSE, block |-> FALSE]

\* Building and adopting a store keeps an instance consistent.
LEMMA LocalStart ==
  ASSUME NEW r, NEW m, Consistent(r, m)
  PROVE  /\ \A cfg \in Configs :
              r.pc \in {"down", "ready"} => Consistent(Building(r, cfg), m)
         /\ r.pc = "scard" => Consistent(Moved(r, "init"), m)
         /\ r.pc \in {"scard", "init"} => Consistent(Adopted(r), m)
<1>1. ASSUME NEW cfg \in Configs, r.pc \in {"down", "ready"}
      PROVE Consistent(Building(r, cfg), m)
  BY <1>1, ConfigsAssumption, NoKeyAssumption
  DEF Consistent, InstanceState, Building
<1>2. ASSUME r.pc = "scard" PROVE Consistent(Moved(r, "init"), m)
  BY <1>2 DEF Consistent, InstanceState, Moved
<1>3. ASSUME r.pc \in {"scard", "init"} PROVE Consistent(Adopted(r), m)
  <2>1. r.key = NoKey /\ ~r.block /\ r.left = {} /\ r.new \in Configs
    BY <1>3 DEF Consistent, InstanceState
  <2>2. QED
    BY <2>1 DEF Consistent, InstanceState, Adopted
<1>4. QED
  BY <1>1, <1>2, <1>3

\* So does each step of the walk for a key.
LEMMA LocalWalk ==
  ASSUME NEW r, NEW m, Consistent(r, m), m \subseteq Keys
  PROVE  /\ r.pc = "ready" => Consistent(Listed(r, m), m)
         /\ \A k \in r.left :
              Consistent(Taken(r, k), m) /\ Consistent(Skipped(r, k), m)
<1>1. ASSUME r.pc = "ready" PROVE Consistent(Listed(r, m), m)
  BY <1>1 DEF Consistent, InstanceState, Listed
<1>2. ASSUME NEW k \in r.left PROVE Consistent(Taken(r, k), m)
  <2>1. k \in m /\ k \in Keys /\ k # NoKey /\ ~r.block /\ r.pc = "probe"
    BY <1>2, NoKeyAssumption DEF Consistent, InstanceState
  <2>2. QED
    BY <2>1 DEF Consistent, InstanceState, Taken
<1>3. ASSUME NEW k \in r.left PROVE Consistent(Skipped(r, k), m)
  BY <1>3 DEF Consistent, InstanceState, Skipped
<1>4. QED
  BY <1>1, <1>2, <1>3

\* And each step that records a failure.
LEMMA LocalFailure ==
  ASSUME NEW r, NEW m, Consistent(r, m)
  PROVE  /\ r.pc = "send" => Consistent(Moved(r, "limit"), m)
         /\ \A t \in BOOLEAN : r.pc = "send" => Consistent(Refused(r, t), m)
         /\ \A b \in BOOLEAN : r.pc = "count" => Consistent(Counted(r, b), m)
         /\ r.pc = "stamp" /\ r.block => Consistent(Moved(r, "block"), m)
<1>1. ASSUME r.pc = "send" PROVE Consistent(Moved(r, "limit"), m)
  BY <1>1 DEF Consistent, InstanceState, Moved
<1>2. ASSUME NEW t \in BOOLEAN, r.pc = "send" PROVE Consistent(Refused(r, t), m)
  BY <1>2 DEF Consistent, InstanceState, Refused
<1>3. ASSUME NEW b \in BOOLEAN, r.pc = "count" PROVE Consistent(Counted(r, b), m)
  BY <1>3 DEF Consistent, InstanceState, Counted
<1>4. ASSUME r.pc = "stamp", r.block PROVE Consistent(Moved(r, "block"), m)
  BY <1>4 DEF Consistent, InstanceState, Moved
<1>5. QED
  BY <1>1, <1>2, <1>3, <1>4

\* And the end of the request, of the connection or of the process.
LEMMA LocalEnd ==
  ASSUME NEW r, NEW m, Consistent(r, m)
  PROVE  /\ r.pc \notin {"scard", "init"} => Consistent(Ended(r), m)
         /\ Consistent(Broken(r, IF r.keys = {} THEN "down" ELSE "ready"), m)
         /\ Consistent(Down, m)
<1>1. ASSUME r.pc \notin {"scard", "init"} PROVE Consistent(Ended(r), m)
  BY <1>1 DEF Consistent, InstanceState, Ended
<1>2. ASSUME NEW label \in {"down", "ready"} PROVE Consistent(Broken(r, label), m)
  BY DEF Consistent, InstanceState, Broken
<1>3. Consistent(Down, m)
  BY DEF Consistent, InstanceState, Down
<1>4. QED
  BY <1>1, <1>2, <1>3

\* What the invariant says of one instance, in a form the steps cite.
LEMMA Instance ==
  ASSUME LocalInv, NEW i \in Instances
  PROVE  /\ Consistent(inst[i], members)
         /\ inst[i] \in InstanceState
         /\ members \subseteq Keys
         /\ interrupted \in [Keys -> 0..MaxInterrupted]
         /\ inst[i].key # NoKey =>
              inst[i].key \in Keys /\ inst[i].key \in members
<1>1. Consistent(inst[i], members) /\ members \subseteq Keys
  BY DEF LocalInv, TypeOK
<1>2. inst[i] \in InstanceState /\ inst[i].key \in members \cup {NoKey}
  BY <1>1 DEF Consistent
<1>3. QED
  BY <1>1, <1>2 DEF LocalInv, TypeOK

\* An instance that has a request out holds a key of the rotation set.
LEMMA Holds ==
  ASSUME LocalInv, NEW i \in Instances,
         inst[i].pc \in {"send", "count", "stamp", "block", "limit"}
  PROVE  inst[i].key # NoKey /\ inst[i].key \in Keys
<1>1. inst[i].key # NoKey
  BY Instance DEF Consistent
<1>2. QED
  BY <1>1, Instance

\* A lost block is counted for the key it was decided for.
LEMMA LosesBlockType ==
  ASSUME LocalInv, NEW i \in Instances, LosesBlock(i)
  PROVE  interrupted' \in [Keys -> 0..MaxInterrupted]
<1>1. CASE inst[i].block
  <2>1. inst[i].key \in Keys
    BY <1>1, Instance, Holds DEF Consistent
  <2>2. interrupted[inst[i].key] + 1 \in 0..MaxInterrupted
    BY <1>1, <2>1, Instance, NumbersAssumption DEF LosesBlock
  <2>3. QED
    BY <1>1, <2>2, Instance DEF LosesBlock
<1>2. CASE ~inst[i].block
  BY <1>2, Instance DEF LosesBlock
<1>3. QED
  BY <1>1, <1>2

\* A step of one instance leaves the others consistent when the rotation set
\* does not shrink.
LEMMA InstanceStep ==
  ASSUME LocalInv, NEW i \in Instances, NEW s, inst' = [inst EXCEPT ![i] = s],
         members \subseteq members', Consistent(s, members'), SharedOK'
  PROVE  LocalInv'
<1>1. inst' \in [Instances -> InstanceState]
  BY DEF LocalInv, TypeOK, Consistent
<1>2. ASSUME NEW j \in Instances PROVE Consistent(inst'[j], members')
  BY DEF LocalInv, TypeOK, Consistent
<1>3. QED
  BY <1>1, <1>2 DEF LocalInv, TypeOK, SharedOK, Consistent

\* Writing fields of a hash gives a hash.
LEMMA FieldsType ==
  ASSUME LocalInv, NEW k \in Keys
  PROVE  /\ Fields(k) \in KeyHash
         /\ Fields(k).failures \in Nat
  BY DEF LocalInv, TypeOK, Fields, EmptyHash, KeyHash

\* A step that leaves what is shared alone.
LEMMA QuietStep ==
  ASSUME LocalInv, NEW i \in Instances, NEW s, inst' = [inst EXCEPT ![i] = s],
         UNCHANGED <<members, hash>>, interrupted' \in [Keys -> 0..MaxInterrupted],
         Consistent(s, members)
  PROVE  LocalInv'
<1>1. SharedOK'
  BY DEF SharedOK, LocalInv, TypeOK
<1>2. QED
  BY <1>1, InstanceStep

\* A step of an instance that writes the hash of the key it holds.
LEMMA HashStep ==
  ASSUME LocalInv, NEW i \in Instances, NEW s, inst' = [inst EXCEPT ![i] = s],
         inst[i].key # NoKey, NEW h \in KeyHash,
         hash' = [hash EXCEPT ![inst[i].key] = h],
         UNCHANGED <<members, interrupted>>, Consistent(s, members)
  PROVE  LocalInv'
<1>1. inst[i].key \in members /\ members # {}
  BY DEF LocalInv, Consistent
<1>2. SharedOK'
  BY <1>1 DEF SharedOK, LocalInv, TypeOK
<1>3. QED
  BY <1>2, InstanceStep

\* Every instance keeps its locals consistent, whatever the others do.
LEMMA LocalInvNext == LocalInv /\ [Next]_vars => LocalInv'
<1> SUFFICES ASSUME LocalInv, [Next]_vars PROVE LocalInv'
  OBVIOUS
<1> USE Instance
<1>1. ASSUME NEW i \in Instances, Build(i) PROVE LocalInv'
  <2>1. PICK cfg \in Configs : inst' = [inst EXCEPT ![i] = Building(inst[i], cfg)]
    BY <1>1 DEF Build, Building
  <2>2. UNCHANGED redis /\ UNCHANGED interrupted
    BY <1>1 DEF Build
  <2>3. Consistent(Building(inst[i], cfg), members)
    BY <1>1, LocalStart DEF Build
  <2>4. QED
    BY <2>1, <2>2, <2>3, QuietStep DEF redis
<1>2. ASSUME NEW i \in Instances, FindsKeys(i) PROVE LocalInv'
  <2>1. inst' = [inst EXCEPT ![i] = Adopted(inst[i])]
    BY <1>2 DEF FindsKeys, Adopt, Adopted
  <2>2. UNCHANGED redis /\ interrupted' \in [Keys -> 0..MaxInterrupted]
    BY <1>2 DEF FindsKeys
  <2>3. Consistent(Adopted(inst[i]), members)
    BY <1>2, LocalStart DEF FindsKeys, At
  <2>4. QED
    BY <2>1, <2>2, <2>3, QuietStep DEF redis
<1>3. ASSUME NEW i \in Instances, FindsNone(i) PROVE LocalInv'
  <2>1. inst' = [inst EXCEPT ![i] = Moved(inst[i], "init")]
    BY <1>3 DEF FindsNone, Moved
  <2>2. UNCHANGED redis /\ interrupted' \in [Keys -> 0..MaxInterrupted]
    BY <1>3 DEF FindsNone
  <2>3. Consistent(Moved(inst[i], "init"), members)
    BY <1>3, LocalStart DEF FindsNone, At
  <2>4. QED
    BY <2>1, <2>2, <2>3, QuietStep DEF redis
<1>4. ASSUME NEW i \in Instances, Initialise(i) PROVE LocalInv'
  <2>1. inst' = [inst EXCEPT ![i] = Adopted(inst[i])]
    BY <1>4 DEF Initialise, Adopt, Adopted
  <2>2. inst[i].new # {} /\ inst[i].new \subseteq Keys
    BY <1>4, ConfigsAssumption DEF Initialise, At, Consistent, InstanceState
  <2>3. members' = members \cup inst[i].new
    BY <1>4 DEF Initialise
  <2>4. Consistent(Adopted(inst[i]), members')
    <3>1. Consistent(Adopted(inst[i]), members)
      BY <1>4, LocalStart DEF Initialise, At
    <3>2. QED
      BY <3>1, <2>3 DEF Consistent
  <2>5. hash' \in [Keys -> KeyHash \cup {NoHash}]
    <3>1. ASSUME NEW k \in Keys
          PROVE  [Fields(k) EXCEPT !.blocked = "false", !.failures = 0] \in KeyHash
      BY FieldsType DEF KeyHash
    <3>2. QED
      BY <1>4, <3>1 DEF Initialise, LocalInv, TypeOK
  <2>6. SharedOK'
    BY <1>4, <2>2, <2>3, <2>5 DEF Initialise, SharedOK
  <2>7. QED
    BY <2>1, <2>3, <2>4, <2>6, InstanceStep
<1>5. ASSUME NEW i \in Instances, List(i) PROVE LocalInv'
  <2>1. inst' = [inst EXCEPT ![i] = Listed(inst[i], members)]
    BY <1>5 DEF List, Candidates, Listed
  <2>2. UNCHANGED redis /\ interrupted' \in [Keys -> 0..MaxInterrupted]
    BY <1>5 DEF List
  <2>3. Consistent(Listed(inst[i], members), members)
    BY <1>5, LocalWalk DEF List, At
  <2>4. QED
    BY <2>1, <2>2, <2>3, QuietStep DEF redis
<1>6. ASSUME NEW i \in Instances, GiveUp(i) PROVE LocalInv'
  <2>1. inst' = [inst EXCEPT ![i] = Ended(inst[i])]
    BY <1>6 DEF GiveUp, Serves, Ended
  <2>2. UNCHANGED redis /\ interrupted' \in [Keys -> 0..MaxInterrupted]
    BY <1>6 DEF GiveUp
  <2>3. Consistent(Ended(inst[i]), members)
    BY <1>6, LocalEnd DEF GiveUp, At
  <2>4. QED
    BY <2>1, <2>2, <2>3, QuietStep DEF redis
<1>7. ASSUME NEW i \in Instances, NEW k \in Keys, TakeKey(i, k) PROVE LocalInv'
  <2>1. inst' = [inst EXCEPT ![i] = Taken(inst[i], k)]
    BY <1>7 DEF TakeKey, Taken
  <2>2. UNCHANGED redis /\ interrupted' \in [Keys -> 0..MaxInterrupted]
    BY <1>7 DEF TakeKey
  <2>3. Consistent(Taken(inst[i], k), members)
    BY <1>7, LocalWalk DEF TakeKey, At
  <2>4. QED
    BY <2>1, <2>2, <2>3, QuietStep DEF redis
<1>8. ASSUME NEW i \in Instances, NEW k \in Keys, SkipKey(i, k) PROVE LocalInv'
  <2>1. inst' = [inst EXCEPT ![i] = Skipped(inst[i], k)]
    BY <1>8 DEF SkipKey, Skipped
  <2>2. UNCHANGED redis /\ interrupted' \in [Keys -> 0..MaxInterrupted]
    BY <1>8 DEF SkipKey
  <2>3. Consistent(Skipped(inst[i], k), members)
    BY <1>8, LocalWalk DEF SkipKey, At
  <2>4. QED
    BY <2>1, <2>2, <2>3, QuietStep DEF redis
<1>9. ASSUME NEW i \in Instances, Answer(i) PROVE LocalInv'
  <2>1. inst' = [inst EXCEPT ![i] = Ended(inst[i])]
    BY <1>9 DEF Answer, Serves, Ended
  <2>2. UNCHANGED redis /\ interrupted' \in [Keys -> 0..MaxInterrupted]
    BY <1>9 DEF Answer
  <2>3. Consistent(Ended(inst[i]), members)
    BY <1>9, LocalEnd DEF Answer, At
  <2>4. QED
    BY <2>1, <2>2, <2>3, QuietStep DEF redis
<1>10. ASSUME NEW i \in Instances, Limit(i) PROVE LocalInv'
  <2>1. inst' = [inst EXCEPT ![i] = Moved(inst[i], "limit")]
    BY <1>10 DEF Limit, Moved
  <2>2. UNCHANGED redis /\ interrupted' \in [Keys -> 0..MaxInterrupted]
    BY <1>10 DEF Limit
  <2>3. Consistent(Moved(inst[i], "limit"), members)
    BY <1>10, LocalFailure DEF Limit, At
  <2>4. QED
    BY <2>1, <2>2, <2>3, QuietStep DEF redis
<1>11. ASSUME NEW i \in Instances, NEW b \in BOOLEAN, Refuse(i, b) PROVE LocalInv'
  <2>1. inst' = [inst EXCEPT ![i] = Refused(inst[i], b)]
    BY <1>11 DEF Refuse, Refused
  <2>2. UNCHANGED redis /\ interrupted' \in [Keys -> 0..MaxInterrupted]
    BY <1>11 DEF Refuse
  <2>3. Consistent(Refused(inst[i], b), members)
    BY <1>11, LocalFailure DEF Refuse, At
  <2>4. QED
    BY <2>1, <2>2, <2>3, QuietStep DEF redis
<1>12. ASSUME NEW i \in Instances, CountFailure(i) PROVE LocalInv'
  <2> DEFINE k == inst[i].key
             f == Fields(k).failures + 1
             b == ShouldBlock(inst[i].terminal, f)
             h == [Fields(k) EXCEPT !.failures = f]
             s == Counted(inst[i], b)
  <2>1. k \in Keys /\ k # NoKey
    BY <1>12, Holds DEF CountFailure, At
  <2>2. h \in KeyHash
    BY <2>1, FieldsType DEF KeyHash
  <2>3. inst' = [inst EXCEPT ![i] = s] /\ hash' = [hash EXCEPT ![k] = h]
    BY <1>12 DEF CountFailure, Counted
  <2>4. Consistent(s, members)
    <3>1. b \in BOOLEAN
      BY DEF ShouldBlock
    <3>2. QED
      BY <1>12, <3>1, LocalFailure DEF CountFailure, At
  <2>5. QED
    BY <1>12, <2>1, <2>2, <2>3, <2>4, HashStep DEF CountFailure
<1>13. ASSUME NEW i \in Instances, Stamp(i) PROVE LocalInv'
  <2> DEFINE k == inst[i].key
             h == Fields(k)
             s == IF inst[i].block THEN Moved(inst[i], "block")
                                   ELSE Ended(inst[i])
  <2>1. k \in Keys /\ k # NoKey
    BY <1>13, Holds DEF Stamp, At
  <2>2. h \in KeyHash
    BY <2>1, FieldsType DEF KeyHash
  <2>3. inst' = [inst EXCEPT ![i] = s] /\ hash' = [hash EXCEPT ![k] = h]
    BY <1>13 DEF Stamp, Serves, Moved, Ended
  <2>4. Consistent(s, members)
    BY <1>13, LocalFailure, LocalEnd DEF Stamp, At
  <2>5. QED
    BY <1>13, <2>1, <2>2, <2>3, <2>4, HashStep DEF Stamp
<1>14. ASSUME NEW i \in Instances, Block(i) PROVE LocalInv'
  <2> DEFINE k == inst[i].key
             h == [Fields(k) EXCEPT !.blocked = TrueText]
             s == Ended(inst[i])
  <2>1. k \in Keys /\ k # NoKey
    BY <1>14, Holds DEF Block, At
  <2>2. h \in KeyHash
    BY <2>1, FieldsType DEF KeyHash
  <2>3. inst' = [inst EXCEPT ![i] = s] /\ hash' = [hash EXCEPT ![k] = h]
    BY <1>14 DEF Block, Serves, Ended
  <2>4. Consistent(s, members)
    BY <1>14, LocalEnd DEF Block, At
  <2>5. QED
    BY <1>14, <2>1, <2>2, <2>3, <2>4, HashStep DEF Block
<1>15. ASSUME NEW i \in Instances, SetRateLimited(i) PROVE LocalInv'
  <2> DEFINE k == inst[i].key
             h == [Fields(k) EXCEPT !.blocked = TrueText, !.expires = TRUE]
             s == Ended(inst[i])
  <2>1. k \in Keys /\ k # NoKey
    BY <1>15, Holds DEF SetRateLimited, At
  <2>2. h \in KeyHash
    BY <2>1, FieldsType DEF KeyHash
  <2>3. inst' = [inst EXCEPT ![i] = s] /\ hash' = [hash EXCEPT ![k] = h]
    BY <1>15 DEF SetRateLimited, Serves, Ended
  <2>4. Consistent(s, members)
    BY <1>15, LocalEnd DEF SetRateLimited, At
  <2>5. QED
    BY <1>15, <2>1, <2>2, <2>3, <2>4, HashStep DEF SetRateLimited
<1>16. ASSUME NEW i \in Instances, Break(i) PROVE LocalInv'
  <2> DEFINE label == IF inst[i].keys = {} THEN "down" ELSE "ready"
  <2>1. inst' = [inst EXCEPT ![i] = Broken(inst[i], label)]
    BY <1>16 DEF Break, Broken
  <2>2. UNCHANGED redis /\ interrupted' \in [Keys -> 0..MaxInterrupted]
    BY <1>16, LosesBlockType DEF Break
  <2>3. Consistent(Broken(inst[i], label), members)
    BY <1>16, LocalEnd DEF Break, At
  <2>4. QED
    BY <2>1, <2>2, <2>3, QuietStep DEF redis
<1>17. ASSUME NEW i \in Instances, Crash(i) PROVE LocalInv'
  <2>1. inst' = [inst EXCEPT ![i] = Down]
    BY <1>17 DEF Crash, Down
  <2>2. UNCHANGED redis /\ interrupted' \in [Keys -> 0..MaxInterrupted]
    BY <1>17, LosesBlockType DEF Crash
  <2>3. Consistent(Down, members)
    BY <1>17, LocalEnd DEF Crash, At
  <2>4. QED
    BY <2>1, <2>2, <2>3, QuietStep DEF redis
<1>18. ASSUME NEW k \in Keys, Expire(k) PROVE LocalInv'
  BY <1>18 DEF Expire, LocalInv, TypeOK
<1>19. CASE UNCHANGED vars
  BY <1>19 DEF vars, redis, LocalInv, TypeOK, Consistent
<1>20. QED
  BY <1>1, <1>2, <1>3, <1>4, <1>5, <1>6, <1>7, <1>8, <1>9, <1>10, <1>11,
     <1>12, <1>13, <1>14, <1>15, <1>16, <1>17, <1>18, <1>19 DEF Next

\* An instance's variables are consistent in every reachable state.
LEMMA LocalInvariant == Spec => []LocalInv
<1>1. Init => LocalInv
  BY NoKeyAssumption, NumbersAssumption
  DEF Init, LocalInv, TypeOK, Consistent, InstanceState
<1>2. QED
  BY <1>1, LocalInvNext, PTL DEF Spec

\* The types hold, an instance probes only keys of the rotation set that it
\* knows, and nothing is recorded of a key in a Redis that holds none.
THEOREM RedisTypeCorrect == Spec => []TypeOK
<1>1. LocalInv => TypeOK
  BY DEF LocalInv
<1>2. QED
  BY <1>1, LocalInvariant, PTL
-----------------------------------------------------------------------------
\* A blocked key returns only when a rate limit on it expires, or when an
\* instance that found Redis empty initialises it late.
THEOREM RedisUnblocking == Spec => OnlyExpiryUnblocks
<1> DEFINE Returns(k) ==
      \/ hash[k].expires /\ hash'[k] = NoHash
      \/ \E i \in Instances : At(i, "init") /\ k \in inst[i].new
<1>1. ASSUME LocalInv, [Next]_vars, NEW k \in Keys, Blocked(k), ~Blocked(k)'
      PROVE  Returns(k)
  <2>1. hash[k] # NoHash /\ hash[k] \in KeyHash /\ hash[k].blocked = "true"
    BY <1>1 DEF Blocked, LocalInv, TypeOK
  <2>2. Fields(k) = hash[k] /\ TrueText = "true"
    BY <2>1 DEF Fields, KeyHash
  <2>3. hash'[k] # hash[k]
    BY <1>1 DEF Blocked
  <2>4. CASE \E i \in Instances : Initialise(i)
    BY <2>3, <2>4 DEF Initialise
  <2>5. CASE \E j \in Keys : Expire(j)
    BY <2>3, <2>5 DEF Expire, LocalInv, TypeOK
  <2>6. ASSUME NEW i \in Instances,
               CountFailure(i) \/ Stamp(i) \/ Block(i) \/ SetRateLimited(i)
        PROVE  FALSE
    <3>1. inst[i].key = k /\ hash \in [Keys -> KeyHash \cup {NoHash}]
      BY <1>1, <2>3, <2>6
      DEF LocalInv, TypeOK, CountFailure, Stamp, Block, SetRateLimited
    <3> DEFINE counted == [hash[k] EXCEPT !.failures = hash[k].failures + 1]
               blocked == [hash[k] EXCEPT !.blocked = TrueText]
               limited == [hash[k] EXCEPT !.blocked = TrueText, !.expires = TRUE]
    <3>2. hash'[k] \in {counted, hash[k], blocked, limited}
      BY <2>2, <2>6, <3>1 DEF CountFailure, Stamp, Block, SetRateLimited
    <3>3. ASSUME NEW h \in {counted, hash[k], blocked, limited}
          PROVE  h \in KeyHash /\ h.blocked = "true"
      <4>1. counted \in KeyHash /\ counted.blocked = "true"
        BY <2>1 DEF KeyHash
      <4>2. blocked \in KeyHash /\ blocked.blocked = "true"
        BY <2>1, <2>2 DEF KeyHash
      <4>3. limited \in KeyHash /\ limited.blocked = "true"
        BY <2>1, <2>2 DEF KeyHash
      <4> HIDE DEF counted, blocked, limited
      <4>4. QED
        BY <2>1, <3>3, <4>1, <4>2, <4>3
    <3>4. QED
      BY <1>1, <3>2, <3>3, NoHashAssumption DEF Blocked
  <2>7. QED
    BY <1>1, <2>3, <2>4, <2>5, <2>6
    DEF Next, vars, redis, Build, FindsKeys, FindsNone, List, GiveUp, TakeKey,
        SkipKey, Answer, Limit, Refuse, Break, Crash
<1>2. LocalInv /\ [Next]_vars =>
        [\A k \in Keys : Blocked(k) /\ ~Blocked(k)' => Returns(k)]_vars
  BY <1>1
<1>3. QED
  BY <1>2, LocalInvariant, PTL DEF Spec, OnlyExpiryUnblocks
-----------------------------------------------------------------------------
\* The instance holds k and may still count a failure of it, or has counted
\* one and decided to block it.
MayCount(r, k) == r.key = k /\ ~r.block /\ r.pc \in {"send", "count", "limit"}

Decided(r, k) == r.key = k /\ r.block

\* The instances that may have taken the count of k past the threshold: while k
\* is free, those about to block it; once it is blocked, all but the ones that
\* may still add to it.
Spent(k) ==
  IF Blocked(k) THEN {i \in Instances : ~MayCount(inst[i], k)}
                ELSE {i \in Instances : Decided(inst[i], k)}

\* The inductive form of OverrunBounded.
Overrun(k) ==
  Fields(k).failures <= (Threshold - 1) + Cardinality(Spent(k)) + interrupted[k]

OverrunInv == LocalInv /\ \A k \in Keys : Overrun(k)

\* The threshold that counts is positive and at least the configured one.
LEMMA ThresholdType == Threshold \in Nat /\ Threshold >= 1 /\ Threshold >= MaxFailures
  BY NumbersAssumption DEF Threshold

\* Spent is a finite set of instances, now ...
LEMMA SpentFinite ==
  ASSUME NEW k \in Keys
  PROVE  /\ Spent(k) \subseteq Instances /\ IsFiniteSet(Spent(k))
         /\ Cardinality(Spent(k)) \in Nat
         /\ Cardinality(Spent(k)) <= Cardinality(Instances)
         /\ Cardinality(Instances) \in Nat
<1>1. Spent(k) \subseteq Instances
  BY DEF Spent
<1>2. QED
  BY <1>1, InstancesAssumption, FS_Subset, FS_CardinalityType

\* ... and in the next state.
LEMMA SpentFiniteNext ==
  ASSUME NEW k \in Keys
  PROVE  /\ Spent(k)' \subseteq Instances /\ IsFiniteSet(Spent(k)')
         /\ Cardinality(Spent(k)') \in Nat
<1>1. Spent(k)' \subseteq Instances
  BY DEF Spent
<1>2. QED
  BY <1>1, InstancesAssumption, FS_Subset, FS_CardinalityType

\* What is compared is all natural numbers.
LEMMA OverrunTypes ==
  ASSUME LocalInv, NEW k \in Keys
  PROVE  /\ Fields(k).failures \in Nat /\ interrupted[k] \in Nat
         /\ Cardinality(Spent(k)) \in Nat
<1>1. interrupted[k] \in Nat
  BY NumbersAssumption DEF LocalInv, TypeOK
<1>2. QED
  BY <1>1, FieldsType, SpentFinite

\* The same of the next state.
LEMMA OverrunTypesNext ==
  ASSUME LocalInv', NEW k \in Keys
  PROVE  /\ Fields(k)'.failures \in Nat /\ interrupted'[k] \in Nat
         /\ Cardinality(Spent(k)') \in Nat
<1>1. interrupted'[k] \in Nat
  BY NumbersAssumption DEF LocalInv, TypeOK
<1>2. Fields(k)'.failures \in Nat
  BY DEF LocalInv, TypeOK, Fields, EmptyHash, KeyHash
<1>3. QED
  BY <1>1, <1>2, SpentFiniteNext

\* A count that is reset, and one that stays below the threshold, is no overrun.
LEMMA Small ==
  ASSUME LocalInv', NEW k \in Keys, Fields(k)'.failures <= Threshold - 1
  PROVE  Overrun(k)'
<1>1. (Threshold - 1)' = Threshold - 1
  BY DEF Threshold
<1>2. QED
  BY <1>1, OverrunTypesNext, ThresholdType DEF Overrun

\* The count stays, and none of the instances it was attributed to goes.
LEMMA Attributed ==
  ASSUME LocalInv', LocalInv, NEW k \in Keys, Overrun(k),
         Fields(k)'.failures <= Fields(k).failures,
         Spent(k) \subseteq Spent(k)', interrupted'[k] >= interrupted[k]
  PROVE  Overrun(k)'
<1>1. Cardinality(Spent(k)) <= Cardinality(Spent(k)')
  BY SpentFiniteNext, FS_Subset
<1>2. QED
  BY <1>1, OverrunTypes, OverrunTypesNext, ThresholdType DEF Overrun, Threshold

\* The count goes up by one, and is attributed to one more instance.
LEMMA AttributedOne ==
  ASSUME LocalInv', LocalInv, NEW k \in Keys, Overrun(k), NEW i,
         Fields(k)'.failures = Fields(k).failures + 1, i \notin Spent(k),
         Spent(k)' = Spent(k) \cup {i}, interrupted'[k] = interrupted[k]
  PROVE  Overrun(k)'
<1>1. Cardinality(Spent(k)') = Cardinality(Spent(k)) + 1
  BY SpentFinite, FS_AddElement
<1>2. QED
  BY <1>1, OverrunTypes, OverrunTypesNext, ThresholdType DEF Overrun, Threshold

\* An instance goes, and its block is counted as lost.
LEMMA Lost ==
  ASSUME LocalInv', LocalInv, NEW k \in Keys, Overrun(k), NEW i,
         Fields(k)' = Fields(k), Spent(k) \ {i} \subseteq Spent(k)',
         interrupted'[k] = interrupted[k] + 1
  PROVE  Overrun(k)'
<1> DEFINE rest == Spent(k) \ {i}
<1>1. Cardinality(rest) \in Nat
      /\ (Cardinality(rest) = Cardinality(Spent(k)) - 1
            \/ Cardinality(rest) = Cardinality(Spent(k)))
  BY SpentFinite, FS_RemoveElement, FS_CardinalityType
<1>2. Cardinality(rest) <= Cardinality(Spent(k)')
  BY SpentFiniteNext, FS_Subset
<1> HIDE DEF rest
<1>3. Cardinality(Spent(k)) <= Cardinality(Spent(k)') + 1
  BY <1>1, <1>2, OverrunTypes, OverrunTypesNext
<1>4. QED
  BY <1>3, OverrunTypes, OverrunTypesNext, ThresholdType DEF Overrun, Threshold

\* From r to s an instance neither becomes one that may count k nor forgets
\* that it is to block it.
Keeps(r, s, k) ==
  (MayCount(s, k) => MayCount(r, k)) /\ (Decided(r, k) => Decided(s, k))

\* The steps before a request, and those that only end one, keep it so ...
LEMMA KeepsFree ==
  ASSUME NEW r, NEW m, Consistent(r, m), NEW k \in Keys
  PROVE  /\ \A cfg \in Configs :
              r.pc \in {"down", "ready"} => Keeps(r, Building(r, cfg), k)
         /\ r.pc = "scard" => Keeps(r, Moved(r, "init"), k)
         /\ r.pc \in {"scard", "init"} => Keeps(r, Adopted(r), k)
         /\ r.pc = "ready" => Keeps(r, Listed(r, m), k)
         /\ \A j \in r.left : Keeps(r, Skipped(r, j), k)
         /\ ~r.block => Keeps(r, Ended(r), k)
<1> USE NoKeyAssumption DEF Keeps, MayCount, Decided
<1>1. ASSUME NEW cfg \in Configs, r.pc \in {"down", "ready"}
      PROVE  Keeps(r, Building(r, cfg), k)
  BY <1>1 DEF Consistent, InstanceState, Building
<1>2. ASSUME r.pc = "scard" PROVE Keeps(r, Moved(r, "init"), k)
  BY <1>2 DEF Consistent, InstanceState, Moved
<1>3. ASSUME r.pc \in {"scard", "init"} PROVE Keeps(r, Adopted(r), k)
  BY <1>3 DEF Consistent, InstanceState, Adopted
<1>4. ASSUME r.pc = "ready" PROVE Keeps(r, Listed(r, m), k)
  BY <1>4 DEF Consistent, InstanceState, Listed
<1>5. ASSUME NEW j \in r.left PROVE Keeps(r, Skipped(r, j), k)
  BY <1>5 DEF Consistent, InstanceState, Skipped
<1>6. ASSUME ~r.block PROVE Keeps(r, Ended(r), k)
  BY <1>6 DEF Consistent, InstanceState, Ended
<1> HIDE DEF Keeps
<1>7. QED
  BY <1>1, <1>2, <1>3, <1>4, <1>5, <1>6

\* ... and so do those of a request, for every key in the first case, for the
\* other keys in the second.
LEMMA KeepsHeld ==
  ASSUME NEW r, NEW m, Consistent(r, m), NEW k \in Keys
  PROVE  /\ r.pc = "send" => Keeps(r, Moved(r, "limit"), k)
         /\ \A t \in BOOLEAN : r.pc = "send" => Keeps(r, Refused(r, t), k)
         /\ r.pc = "stamp" /\ r.block => Keeps(r, Moved(r, "block"), k)
         /\ r.key # k =>
              /\ \A b \in BOOLEAN : Keeps(r, Counted(r, b), k)
              /\ \A j \in r.left \ {k} : Keeps(r, Taken(r, j), k)
              /\ Keeps(r, Ended(r), k)
<1> USE NoKeyAssumption DEF Keeps, MayCount, Decided
<1>1. ASSUME r.pc = "send" PROVE Keeps(r, Moved(r, "limit"), k)
  BY <1>1 DEF Consistent, InstanceState, Moved
<1>2. ASSUME NEW t \in BOOLEAN, r.pc = "send" PROVE Keeps(r, Refused(r, t), k)
  BY <1>2 DEF Consistent, InstanceState, Refused
<1>3. ASSUME r.pc = "stamp", r.block PROVE Keeps(r, Moved(r, "block"), k)
  BY <1>3 DEF Consistent, InstanceState, Moved
<1>4. ASSUME NEW b \in BOOLEAN, r.key # k PROVE Keeps(r, Counted(r, b), k)
  BY <1>4 DEF Consistent, InstanceState, Counted
<1>5. ASSUME NEW j \in r.left \ {k}, r.key # k PROVE Keeps(r, Taken(r, j), k)
  BY <1>5 DEF Consistent, InstanceState, Taken
<1>6. ASSUME r.key # k PROVE Keeps(r, Ended(r), k)
  BY <1>6 DEF Consistent, InstanceState, Ended
<1> HIDE DEF Keeps
<1>7. QED
  BY <1>1, <1>2, <1>3, <1>4, <1>5, <1>6

\* A step that keeps it so, and leaves count and block of k as they read.
LEMMA KeepsStep ==
  ASSUME LocalInv, LocalInv', NEW i \in Instances, NEW s,
         inst' = [inst EXCEPT ![i] = s], NEW k \in Keys, Overrun(k),
         Keeps(inst[i], s, k), Fields(k)' = Fields(k), Blocked(k)' = Blocked(k),
         interrupted'[k] = interrupted[k]
  PROVE  Overrun(k)'
<1>1. ASSUME NEW j \in Instances PROVE Keeps(inst[j], inst'[j], k)
  BY DEF LocalInv, TypeOK, Keeps
<1>2. Spent(k) \subseteq Spent(k)'
  <2>1. CASE Blocked(k)
    BY <1>1, <2>1 DEF Spent, Keeps
  <2>2. CASE ~Blocked(k)
    BY <1>1, <2>2 DEF Spent, Keeps
  <2>3. QED
    BY <2>1, <2>2
<1>3. QED
  BY <1>2, OverrunTypes, Attributed

\* The same when the hash of k is not touched at all.
LEMMA KeepsQuiet ==
  ASSUME LocalInv, LocalInv', NEW i \in Instances, NEW s,
         inst' = [inst EXCEPT ![i] = s], NEW k \in Keys, Overrun(k),
         Keeps(inst[i], s, k), hash'[k] = hash[k], interrupted'[k] = interrupted[k]
  PROVE  Overrun(k)'
<1>1. Fields(k)' = Fields(k) /\ Blocked(k)' = Blocked(k)
  BY DEF Fields, Blocked
<1>2. QED
  BY <1>1, KeepsStep

\* A fault ends what the instance was doing.
LEMMA FaultStep ==
  ASSUME LocalInv, LocalInv', NEW i \in Instances, NEW s, s.key = NoKey,
         inst' = [inst EXCEPT ![i] = s], LosesBlock(i), UNCHANGED redis,
         NEW k \in Keys, Overrun(k)
  PROVE  Overrun(k)'
<1>1. Fields(k)' = Fields(k) /\ Blocked(k)' = Blocked(k)
  BY DEF Fields, Blocked, redis
<1>2. ~MayCount(s, k) /\ ~Decided(s, k)
  BY NoKeyAssumption DEF MayCount, Decided
<1>3. CASE Decided(inst[i], k)
  <2>1. interrupted'[k] = interrupted[k] + 1
    BY <1>3 DEF Decided, LosesBlock, LocalInv, TypeOK
  <2>2. ASSUME NEW j \in Instances \ {i} PROVE inst'[j] = inst[j]
    BY DEF LocalInv, TypeOK
  <2>3. Spent(k) \ {i} \subseteq Spent(k)'
    <3>1. CASE Blocked(k)
      BY <1>1, <2>2, <3>1 DEF Spent
    <3>2. CASE ~Blocked(k)
      BY <1>1, <2>2, <3>2 DEF Spent
    <3>3. QED
      BY <3>1, <3>2
  <2>4. QED
    BY <1>1, <2>1, <2>3, Lost
<1>4. CASE ~Decided(inst[i], k)
  <2>1. interrupted'[k] = interrupted[k]
    BY <1>4, Instance DEF Decided, LosesBlock, LocalInv, TypeOK
  <2>2. QED
    BY <1>1, <1>2, <1>4, <2>1, KeepsStep DEF Keeps
<1>5. QED
  BY <1>3, <1>4

\* Writing fields of the hash of j: the other keys read as before, and j reads
\* as what was written.
LEMMA WriteReads ==
  ASSUME LocalInv, NEW j \in Keys, NEW h \in KeyHash,
         hash' = [hash EXCEPT ![j] = h]
  PROVE  /\ Fields(j)' = h /\ Blocked(j)' = (h.blocked = "true")
         /\ \A k \in Keys \ {j} : hash'[k] = hash[k]
<1>1. hash'[j] = h /\ hash'[j] # NoHash
  BY NoHashAssumption DEF LocalInv, TypeOK
<1>2. QED
  BY <1>1 DEF Fields, Blocked, LocalInv, TypeOK

\* What a key reads as, blocked or not, is what its fields say.
LEMMA BlockedReads ==
  ASSUME NEW k \in Keys
  PROVE  Blocked(k) = (Fields(k).blocked = "true")
  BY DEF Blocked, Fields, EmptyHash

\* A count reaches Redis: it is attributed to its instance, which has decided to
\* block the key or found it blocked, or it is below the threshold.
LEMMA CountStep ==
  ASSUME LocalInv, LocalInv', NEW i \in Instances, CountFailure(i),
         NEW k \in Keys, inst[i].key = k, Overrun(k)
  PROVE  Overrun(k)'
<1> DEFINE f == Fields(k).failures + 1
           b == ShouldBlock(inst[i].terminal, f)
           h == [Fields(k) EXCEPT !.failures = f]
           s == Counted(inst[i], b)
<1>1. inst[i].pc = "count" /\ ~inst[i].block /\ inst[i] \in InstanceState
  BY Instance DEF CountFailure, At, Consistent
<1>2. h \in KeyHash /\ h.failures = f /\ h.blocked = Fields(k).blocked /\ f \in Nat
  BY FieldsType DEF KeyHash
<1>3. inst' = [inst EXCEPT ![i] = s] /\ hash' = [hash EXCEPT ![k] = h]
      /\ interrupted'[k] = interrupted[k]
  BY DEF CountFailure, Counted
<1>4. s.key = k /\ s.block = b /\ s.pc = "stamp" /\ b \in BOOLEAN
  BY <1>1 DEF Counted, InstanceState, ShouldBlock
<1> HIDE DEF s, h, b
<1>5. Fields(k)' = h /\ Blocked(k)' = (h.blocked = "true")
  BY <1>2, <1>3, WriteReads
<1>6. Blocked(k)' = Blocked(k) /\ Blocked(k) \in BOOLEAN
  BY <1>2, <1>5, BlockedReads
<1>7. inst'[i] = s /\ \A o \in Instances \ {i} : inst'[o] = inst[o]
  BY <1>3 DEF LocalInv, TypeOK
<1>8. MayCount(inst[i], k) /\ ~Decided(inst[i], k) /\ ~MayCount(s, k)
      /\ (Decided(s, k) <=> b)
  BY <1>1, <1>4 DEF MayCount, Decided
<1>9. CASE Blocked(k)
  <2>1. Spent(k)' = Spent(k) \cup {i} /\ i \notin Spent(k)
    BY <1>6, <1>7, <1>8, <1>9 DEF Spent
  <2>2. QED
    BY <1>2, <1>3, <1>5, <2>1, AttributedOne
<1>10. CASE ~Blocked(k) /\ b
  <2>1. Spent(k)' = Spent(k) \cup {i} /\ i \notin Spent(k)
    BY <1>6, <1>7, <1>8, <1>10 DEF Spent
  <2>2. QED
    BY <1>2, <1>3, <1>5, <2>1, AttributedOne
<1>11. CASE ~b
  <2>1. f <= Threshold - 1
    BY <1>2, <1>11, ThresholdType, NumbersAssumption DEF b, ShouldBlock
  <2>2. QED
    BY <1>2, <1>5, <2>1, Small
<1>12. QED
  BY <1>4, <1>9, <1>10, <1>11

\* A block that reaches Redis, for good or for a while: from then on only those
\* that hold the key already can add to its count.
LEMMA BlockStep ==
  ASSUME LocalInv, LocalInv', NEW i \in Instances, NEW k \in Keys, Overrun(k),
         inst' = [inst EXCEPT ![i] = Ended(inst[i])], UNCHANGED interrupted,
         NEW h \in KeyHash, h.blocked = "true", h.failures = Fields(k).failures,
         hash' = [hash EXCEPT ![k] = h]
  PROVE  Overrun(k)'
<1>1. Fields(k)' = h /\ Blocked(k)'
  BY WriteReads
<1>2. ASSUME NEW j \in Instances PROVE MayCount(inst'[j], k) => MayCount(inst[j], k)
  BY Instance, NoKeyAssumption
  DEF LocalInv, TypeOK, Ended, MayCount, InstanceState
<1>3. ASSUME NEW j \in Instances, Decided(inst[j], k) PROVE ~MayCount(inst[j], k)
  BY <1>3 DEF Decided, MayCount
<1>4. Spent(k) \subseteq Spent(k)'
  BY <1>1, <1>2, <1>3 DEF Spent
<1>5. QED
  BY <1>1, <1>4, OverrunTypes, Attributed

\* Every step keeps the bound, if a block reads as a block.
LEMMA OverrunNext ==
  ASSUME TrueText = "true", OverrunInv, [Next]_vars
  PROVE  OverrunInv'
<1>0. LocalInv /\ LocalInv'
  BY LocalInvNext DEF OverrunInv
<1> SUFFICES ASSUME NEW k \in Keys PROVE Overrun(k)'
  BY <1>0 DEF OverrunInv
<1>01. Overrun(k)
  BY DEF OverrunInv
<1> USE <1>0, <1>01, Instance
<1>1. ASSUME NEW i \in Instances, Build(i) PROVE Overrun(k)'
  <2>1. PICK cfg \in Configs : inst' = [inst EXCEPT ![i] = Building(inst[i], cfg)]
    BY <1>1 DEF Build, Building
  <2>2. Keeps(inst[i], Building(inst[i], cfg), k)
    BY <1>1, KeepsFree DEF Build
  <2>3. QED
    BY <1>1, <2>1, <2>2, KeepsQuiet DEF Build, redis
<1>2. ASSUME NEW i \in Instances, FindsKeys(i) PROVE Overrun(k)'
  <2>1. inst' = [inst EXCEPT ![i] = Adopted(inst[i])]
    BY <1>2 DEF FindsKeys, Adopt, Adopted
  <2>2. Keeps(inst[i], Adopted(inst[i]), k)
    BY <1>2, KeepsFree DEF FindsKeys, At
  <2>3. QED
    BY <1>2, <2>1, <2>2, KeepsQuiet DEF FindsKeys, redis
<1>3. ASSUME NEW i \in Instances, FindsNone(i) PROVE Overrun(k)'
  <2>1. inst' = [inst EXCEPT ![i] = Moved(inst[i], "init")]
    BY <1>3 DEF FindsNone, Moved
  <2>2. Keeps(inst[i], Moved(inst[i], "init"), k)
    BY <1>3, KeepsFree DEF FindsNone, At
  <2>3. QED
    BY <1>3, <2>1, <2>2, KeepsQuiet DEF FindsNone, redis
<1>4. ASSUME NEW i \in Instances, Initialise(i) PROVE Overrun(k)'
  <2>1. CASE k \in inst[i].new
    <3> DEFINE h == [Fields(k) EXCEPT !.blocked = "false", !.failures = 0]
    <3>1. hash'[k] = h
      BY <1>4, <2>1 DEF Initialise
    <3>2. h \in KeyHash /\ h.failures = 0
      BY FieldsType DEF KeyHash
    <3> HIDE DEF h
    <3>3. Fields(k)'.failures = 0
      BY <3>1, <3>2, NoHashAssumption DEF Fields
    <3>4. QED
      BY <3>3, ThresholdType, Small
  <2>2. CASE k \notin inst[i].new
    <3>1. inst' = [inst EXCEPT ![i] = Adopted(inst[i])]
      BY <1>4 DEF Initialise, Adopt, Adopted
    <3>2. Keeps(inst[i], Adopted(inst[i]), k)
      BY <1>4, KeepsFree DEF Initialise, At
    <3>3. hash'[k] = hash[k]
      BY <1>4, <2>2 DEF Initialise
    <3>4. QED
      BY <1>4, <3>1, <3>2, <3>3, KeepsQuiet DEF Initialise
  <2>3. QED
    BY <2>1, <2>2
<1>5. ASSUME NEW i \in Instances, List(i) PROVE Overrun(k)'
  <2>1. inst' = [inst EXCEPT ![i] = Listed(inst[i], members)]
    BY <1>5 DEF List, Candidates, Listed
  <2>2. Keeps(inst[i], Listed(inst[i], members), k)
    BY <1>5, KeepsFree DEF List, At
  <2>3. QED
    BY <1>5, <2>1, <2>2, KeepsQuiet DEF List, redis
<1>6. ASSUME NEW i \in Instances, GiveUp(i) PROVE Overrun(k)'
  <2>1. inst' = [inst EXCEPT ![i] = Ended(inst[i])]
    BY <1>6 DEF GiveUp, Serves, Ended
  <2>2. ~inst[i].block
    BY <1>6 DEF GiveUp, At, Consistent
  <2>3. QED
    BY <1>6, <2>1, <2>2, KeepsFree, KeepsQuiet DEF GiveUp, redis
<1>7. ASSUME NEW i \in Instances, NEW j \in Keys, TakeKey(i, j) PROVE Overrun(k)'
  <2>1. inst' = [inst EXCEPT ![i] = Taken(inst[i], j)]
    BY <1>7 DEF TakeKey, Taken
  <2>2. inst[i].pc = "probe" /\ j \in inst[i].left /\ ~Blocked(j)
        /\ inst[i].key = NoKey /\ ~inst[i].block
    BY <1>7 DEF TakeKey, At, Consistent
  <2>3. CASE j = k
    <3>1. Fields(k)' = Fields(k) /\ ~Blocked(k)'
      BY <1>7, <2>2, <2>3 DEF TakeKey, redis, Fields, Blocked
    <3>2. Spent(k) \subseteq Spent(k)'
      BY <2>1, <2>2, <2>3, <3>1, NoKeyAssumption
      DEF Spent, Decided, LocalInv, TypeOK
    <3>3. QED
      BY <1>7, <3>1, <3>2, OverrunTypes, Attributed DEF TakeKey
  <2>4. CASE j # k
    <3>1. Keeps(inst[i], Taken(inst[i], j), k)
      BY <2>2, <2>4, NoKeyAssumption, KeepsHeld
    <3>2. QED
      BY <1>7, <2>1, <3>1, KeepsQuiet DEF TakeKey, redis
  <2>5. QED
    BY <2>3, <2>4
<1>8. ASSUME NEW i \in Instances, NEW j \in Keys, SkipKey(i, j) PROVE Overrun(k)'
  <2>1. inst' = [inst EXCEPT ![i] = Skipped(inst[i], j)]
    BY <1>8 DEF SkipKey, Skipped
  <2>2. Keeps(inst[i], Skipped(inst[i], j), k)
    BY <1>8, KeepsFree DEF SkipKey, At
  <2>3. QED
    BY <1>8, <2>1, <2>2, KeepsQuiet DEF SkipKey, redis
<1>9. ASSUME NEW i \in Instances, Answer(i) PROVE Overrun(k)'
  <2>1. inst' = [inst EXCEPT ![i] = Ended(inst[i])]
    BY <1>9 DEF Answer, Serves, Ended
  <2>2. ~inst[i].block
    BY <1>9 DEF Answer, At, Consistent
  <2>3. QED
    BY <1>9, <2>1, <2>2, KeepsFree, KeepsQuiet DEF Answer, redis
<1>10. ASSUME NEW i \in Instances, Limit(i) PROVE Overrun(k)'
  <2>1. inst' = [inst EXCEPT ![i] = Moved(inst[i], "limit")]
    BY <1>10 DEF Limit, Moved
  <2>2. Keeps(inst[i], Moved(inst[i], "limit"), k)
    BY <1>10, KeepsHeld DEF Limit, At
  <2>3. QED
    BY <1>10, <2>1, <2>2, KeepsQuiet DEF Limit, redis
<1>11. ASSUME NEW i \in Instances, NEW t \in BOOLEAN, Refuse(i, t) PROVE Overrun(k)'
  <2>1. inst' = [inst EXCEPT ![i] = Refused(inst[i], t)]
    BY <1>11 DEF Refuse, Refused
  <2>2. Keeps(inst[i], Refused(inst[i], t), k)
    BY <1>11, KeepsHeld DEF Refuse, At
  <2>3. QED
    BY <1>11, <2>1, <2>2, KeepsQuiet DEF Refuse, redis
<1>12. ASSUME NEW i \in Instances, CountFailure(i) PROVE Overrun(k)'
  <2>1. CASE inst[i].key = k
    BY <1>12, <2>1, CountStep
  <2>2. CASE inst[i].key # k
    <3> DEFINE b == ShouldBlock(inst[i].terminal, Fields(inst[i].key).failures + 1)
    <3>1. inst' = [inst EXCEPT ![i] = Counted(inst[i], b)] /\ b \in BOOLEAN
      BY <1>12 DEF CountFailure, Counted, ShouldBlock
    <3>2. hash'[k] = hash[k] /\ UNCHANGED interrupted
      BY <1>12, <2>2 DEF CountFailure, LocalInv, TypeOK
    <3> HIDE DEF b
    <3>3. QED
      BY <2>2, <3>1, <3>2, KeepsHeld, KeepsQuiet
  <2>3. QED
    BY <2>1, <2>2
<1>13. ASSUME NEW i \in Instances, Stamp(i) PROVE Overrun(k)'
  <2> DEFINE s == IF inst[i].block THEN Moved(inst[i], "block") ELSE Ended(inst[i])
  <2>1. inst' = [inst EXCEPT ![i] = s]
    BY <1>13 DEF Stamp, Serves, Moved, Ended
  <2>2. Keeps(inst[i], s, k)
    BY <1>13, KeepsHeld, KeepsFree DEF Stamp, At
  <2>3. Fields(k)' = Fields(k) /\ Blocked(k)' = Blocked(k)
    <3>1. inst[i].key \in Keys
      BY <1>13, Holds DEF Stamp, At
    <3>2. Fields(inst[i].key) \in KeyHash
      BY <3>1, FieldsType
    <3>3. CASE inst[i].key = k
      BY <1>13, <3>2, <3>3, WriteReads, BlockedReads DEF Stamp
    <3>4. CASE inst[i].key # k
      BY <1>13, <3>4 DEF Stamp, LocalInv, TypeOK, Fields, Blocked
    <3>5. QED
      BY <3>3, <3>4
  <2>4. QED
    BY <1>13, <2>1, <2>2, <2>3, KeepsStep DEF Stamp
<1>14. ASSUME NEW i \in Instances, Block(i) PROVE Overrun(k)'
  <2> DEFINE h == [Fields(k) EXCEPT !.blocked = TrueText]
  <2>1. inst' = [inst EXCEPT ![i] = Ended(inst[i])] /\ UNCHANGED interrupted
    BY <1>14 DEF Block, Serves, Ended
  <2>2. CASE inst[i].key = k
    <3>1. h \in KeyHash /\ h.blocked = "true" /\ h.failures = Fields(k).failures
      BY FieldsType DEF KeyHash
    <3>2. hash' = [hash EXCEPT ![k] = h]
      BY <1>14, <2>2 DEF Block
    <3>3. QED
      BY <2>1, <3>1, <3>2, BlockStep
  <2>3. CASE inst[i].key # k
    <3>1. hash'[k] = hash[k]
      BY <1>14, <2>3 DEF Block, LocalInv, TypeOK
    <3>2. QED
      BY <2>1, <2>3, <3>1, KeepsHeld, KeepsQuiet
  <2>4. QED
    BY <2>2, <2>3
<1>15. ASSUME NEW i \in Instances, SetRateLimited(i) PROVE Overrun(k)'
  <2> DEFINE h == [Fields(k) EXCEPT !.blocked = TrueText, !.expires = TRUE]
  <2>1. inst' = [inst EXCEPT ![i] = Ended(inst[i])] /\ UNCHANGED interrupted
    BY <1>15 DEF SetRateLimited, Serves, Ended
  <2>2. CASE inst[i].key = k
    <3>1. h \in KeyHash /\ h.blocked = "true" /\ h.failures = Fields(k).failures
      BY FieldsType DEF KeyHash
    <3>2. hash' = [hash EXCEPT ![k] = h]
      BY <1>15, <2>2 DEF SetRateLimited
    <3>3. QED
      BY <2>1, <3>1, <3>2, BlockStep
  <2>3. CASE inst[i].key # k
    <3>1. hash'[k] = hash[k]
      BY <1>15, <2>3 DEF SetRateLimited, LocalInv, TypeOK
    <3>2. QED
      BY <2>1, <2>3, <3>1, KeepsHeld, KeepsQuiet
  <2>4. QED
    BY <2>2, <2>3
<1>16. ASSUME NEW i \in Instances, Break(i) PROVE Overrun(k)'
  <2> DEFINE label == IF inst[i].keys = {} THEN "down" ELSE "ready"
             s == Broken(inst[i], label)
  <2>1. inst' = [inst EXCEPT ![i] = s]
    BY <1>16 DEF Break, Broken
  <2>2. s.key = NoKey
    BY DEF Broken, InstanceState
  <2>3. QED
    BY <1>16, <2>1, <2>2, FaultStep DEF Break
<1>17. ASSUME NEW i \in Instances, Crash(i) PROVE Overrun(k)'
  <2>1. inst' = [inst EXCEPT ![i] = Down] /\ Down.key = NoKey
    BY <1>17 DEF Crash, Down
  <2>2. QED
    BY <1>17, <2>1, FaultStep DEF Crash
<1>18. ASSUME NEW j \in Keys, Expire(j) PROVE Overrun(k)'
  <2>1. CASE j = k
    <3>1. hash'[k] = NoHash
      BY <1>18, <2>1 DEF Expire, LocalInv, TypeOK
    <3>2. Fields(k)'.failures = 0
      BY <3>1 DEF Fields, EmptyHash
    <3>3. QED
      BY <3>2, ThresholdType, Small
  <2>2. CASE j # k
    <3>1. hash'[k] = hash[k] /\ UNCHANGED <<inst, interrupted>>
      BY <1>18, <2>2 DEF Expire, LocalInv, TypeOK
    <3>2. QED
      BY <3>1 DEF Overrun, Spent, Fields, Blocked, Threshold
  <2>3. QED
    BY <2>1, <2>2
<1>19. CASE UNCHANGED vars
  BY <1>19 DEF vars, redis, Overrun, Spent, Fields, Blocked, Threshold
<1>20. QED
  BY <1>1, <1>2, <1>3, <1>4, <1>5, <1>6, <1>7, <1>8, <1>9, <1>10, <1>11,
     <1>12, <1>13, <1>14, <1>15, <1>16, <1>17, <1>18, <1>19 DEF Next

\* If the client library writes a bool the way parse_key_state reads it, the
\* failures counted of a key stay within the threshold, plus one for each
\* instance and one for each block that a fault kept from Redis.
THEOREM RedisOverrunBounded ==
  ASSUME TrueText = "true" PROVE Spec => []OverrunBounded
<1>1. Init => OverrunInv
  <2> SUFFICES ASSUME Init PROVE OverrunInv
    OBVIOUS
  <2>1. LocalInv
    BY NoKeyAssumption, NumbersAssumption
    DEF Init, LocalInv, TypeOK, Consistent, InstanceState
  <2>2. ASSUME NEW k \in Keys PROVE Overrun(k)
    <3>1. Fields(k).failures = 0
      BY DEF Init, Fields, EmptyHash
    <3>2. QED
      BY <2>1, <3>1, OverrunTypes, ThresholdType DEF Overrun
  <2>3. QED
    BY <2>1, <2>2 DEF OverrunInv
<1>2. OverrunInv /\ [Next]_vars => OverrunInv'
  BY OverrunNext
<1>3. OverrunInv => OverrunBounded
  <2> SUFFICES ASSUME OverrunInv, NEW k \in Keys
               PROVE  Fields(k).failures <=
                        (Threshold - 1) + Cardinality(Instances) + interrupted[k]
    BY DEF OverrunBounded
  <2>1. LocalInv /\ Overrun(k)
    BY DEF OverrunInv
  <2>2. QED
    BY <2>1, OverrunTypes, SpentFinite, ThresholdType DEF Overrun
<1>4. QED
  BY <1>1, <1>2, <1>3, PTL DEF Spec
-----------------------------------------------------------------------------
\* The ledger's view of Redis and of the instances.
Withdrawn == {k \in Keys : Blocked(k)}
Limited   == {k \in Keys : hash[k] # NoHash /\ hash[k].expires}
Charges   == [k \in Keys |-> Fields(k).failures]
UseOf(s)  == [key |-> s.key, stage |-> Stage(s)]
Uses      == [i \in Instances |-> UseOf(inst[i])]
Starters  == {i \in Instances : At(i, "init")}

LedgerView == <<members, Withdrawn, Limited, Charges, Uses, Starters>>

Unused == [key |-> NoKey, stage |-> "none"]

\* How far the use has come, by where the instance is.
LEMMA StageReads ==
  ASSUME NEW s, s \in InstanceState
  PROVE  /\ s.pc \in {"send", "count", "limit"} => Stage(s) = "holds"
         /\ s.pc = "stamp" /\ ~s.block => Stage(s) = "charged"
         /\ s.pc = "stamp" /\ s.block => Stage(s) = "due"
         /\ s.pc = "block" => Stage(s) = "due"
         /\ s.pc \in {"down", "scard", "init", "ready", "probe"} => Stage(s) = "none"
BY DEF Stage, InstanceState

\* An instance without a key has no use in the ledger.
LEMMA WithoutKey ==
  ASSUME NEW s, NEW m, Consistent(s, m), s.key = NoKey
  PROVE  UseOf(s) = Unused
<1>1. s \in InstanceState
      /\ s.pc \in {"down", "scard", "init", "ready", "probe"}
  BY DEF Consistent, InstanceState
<1>2. QED
  BY <1>1, StageReads DEF UseOf, Unused

\* A step of one instance changes its use only, and whether it founds.
LEMMA UseStep ==
  ASSUME LocalInv, NEW i \in Instances, NEW s, inst' = [inst EXCEPT ![i] = s]
  PROVE  /\ Uses' = [Uses EXCEPT ![i] = UseOf(s)]
         /\ s.pc = "init" => Starters' = Starters \cup {i}
         /\ s.pc # "init" => Starters' = Starters \ {i}
<1>1. inst \in [Instances -> InstanceState]
  BY DEF LocalInv, TypeOK
<1>2. inst'[i] = s /\ \A j \in Instances \ {i} : inst'[j] = inst[j]
  BY <1>1
<1>3. Uses' = [Uses EXCEPT ![i] = UseOf(s)]
  BY <1>2 DEF Uses, UseOf, Stage
<1>4. QED
  BY <1>2, <1>3 DEF Starters, At

\* Writing the hash of j changes the entries of j to what was written.
LEMMA EntryStep ==
  ASSUME LocalInv, NEW j \in Keys, NEW h \in KeyHash,
         hash' = [hash EXCEPT ![j] = h]
  PROVE  /\ h.blocked = "true" => Withdrawn' = Withdrawn \cup {j}
         /\ h.blocked = Fields(j).blocked => Withdrawn' = Withdrawn
         /\ h.expires => Limited' = Limited \cup {j}
         /\ h.expires = Fields(j).expires => Limited' = Limited
         /\ Charges' = [Charges EXCEPT ![j] = h.failures]
         /\ h.failures = Fields(j).failures => Charges' = Charges
<1>1. /\ Fields(j)' = h /\ Blocked(j)' = (h.blocked = "true")
      /\ \A k \in Keys \ {j} : hash'[k] = hash[k]
  BY WriteReads
<1>2. hash'[j] = h /\ h # NoHash
  BY NoHashAssumption DEF LocalInv, TypeOK
<1>3. \A k \in Keys \ {j} : /\ Blocked(k)' = Blocked(k)
                            /\ Fields(k)' = Fields(k)
  BY <1>1 DEF Blocked, Fields
<1>4. Blocked(j) = (Fields(j).blocked = "true")
  BY BlockedReads
<1>5. (hash[j] # NoHash /\ hash[j].expires) = Fields(j).expires
  BY DEF Fields, EmptyHash, LocalInv, TypeOK, KeyHash
<1>6. Charges' = [Charges EXCEPT ![j] = h.failures]
  BY <1>1, <1>3 DEF Charges
<1>7. QED
  <2>1. /\ h.blocked = "true" => Withdrawn' = Withdrawn \cup {j}
        /\ h.blocked = Fields(j).blocked => Withdrawn' = Withdrawn
    BY <1>1, <1>3, <1>4 DEF Withdrawn
  <2>2. /\ h.expires => Limited' = Limited \cup {j}
        /\ h.expires = Fields(j).expires => Limited' = Limited
    BY <1>1, <1>2, <1>5 DEF Limited
  <2>3. h.failures = Fields(j).failures => Charges' = Charges
    BY <1>6 DEF Charges
  <2>4. QED
    BY <1>6, <2>1, <2>2, <2>3

\* What Redis holds is unchanged, and so are the entries.
LEMMA EntriesStay ==
  ASSUME UNCHANGED redis
  PROVE  UNCHANGED <<members, Withdrawn, Limited, Charges>>
BY DEF redis, Withdrawn, Limited, Charges, Blocked, Fields

LEMMA UsesStay ==
  ASSUME LocalInv, NEW i \in Instances, NEW s, inst' = [inst EXCEPT ![i] = s],
         UseOf(s) = UseOf(inst[i])
  PROVE  Uses' = Uses
<1>1. Uses' = [Uses EXCEPT ![i] = UseOf(s)]
  BY UseStep
<1>2. Uses[i] = UseOf(s)
  BY DEF Uses
<1>3. QED
  BY <1>1, <1>2 DEF Uses

\* A step after which an instance holds no key and is not about to found.
LEMMA LeaveStep ==
  ASSUME LocalInv, NEW i \in Instances, NEW s, inst' = [inst EXCEPT ![i] = s],
         UseOf(s) = Unused, s.pc # "init",
         UNCHANGED <<members, Withdrawn, Limited, Charges>>
  PROVE  Ledger!Next
<1>1. Uses' = [Uses EXCEPT ![i] = Unused] /\ Starters' = Starters \ {i}
  BY UseStep
<1>2. Ledger!Leave(i)
  BY <1>1 DEF Ledger!Leave, Ledger!entries, Ledger!NoUse, Withdrawn, Limited, Charges,
     UseOf, Uses, Starters, Unused
<1>3. QED
  BY <1>2 DEF Ledger!Next

\* A step that does not touch the use of the instance.
LEMMA StutterStep ==
  ASSUME LocalInv, NEW i \in Instances, NEW s, inst' = [inst EXCEPT ![i] = s],
         UseOf(s) = UseOf(inst[i]), (s.pc = "init") = (inst[i].pc = "init"),
         UNCHANGED <<members, Withdrawn, Limited, Charges>>
  PROVE  UNCHANGED LedgerView
<1>1. Uses' = Uses
  BY UsesStay
<1>2. Starters' = Starters
  BY UseStep DEF Starters, At
<1>3. QED
  BY <1>1, <1>2 DEF LedgerView

\* The start of an instance, and a reload: only an instance that found the
\* rotation set empty founds the ledger.
LEMMA LedgerStart ==
  ASSUME LocalInv, NEW i \in Instances,
         Build(i) \/ FindsKeys(i) \/ FindsNone(i) \/ Initialise(i)
  PROVE  Ledger!Next \/ UNCHANGED LedgerView
<1> DEFINE r == inst[i]
<1>0. Consistent(r, members) /\ r \in InstanceState
  BY Instance
<1>1. CASE Build(i)
  <2>1. PICK cfg \in Configs : inst' = [inst EXCEPT ![i] = Building(r, cfg)]
    BY <1>1 DEF Build, Building
  <2>2. Consistent(Building(r, cfg), members) /\ Building(r, cfg).pc = "scard"
        /\ Building(r, cfg).key = NoKey
    <3>1. r.pc \in {"down", "ready"} /\ r.key = NoKey
      BY <1>0, <1>1 DEF Build, Consistent
    <3>2. Consistent(Building(r, cfg), members)
      BY <1>0, <3>1, LocalStart
    <3>3. QED
      BY <1>0, <3>1, <3>2 DEF Building, InstanceState
  <2>3. QED
    BY <1>1, <2>1, <2>2, WithoutKey, EntriesStay, LeaveStep DEF Build
<1>2. CASE FindsKeys(i)
  <2>1. inst' = [inst EXCEPT ![i] = Adopted(r)]
    BY <1>2 DEF FindsKeys, Adopt, Adopted
  <2>2. Consistent(Adopted(r), members) /\ Adopted(r).pc = "ready"
        /\ Adopted(r).key = NoKey
    BY <1>0, <1>2, LocalStart DEF FindsKeys, At, Adopted, Consistent, InstanceState
  <2>3. QED
    BY <1>2, <2>1, <2>2, WithoutKey, EntriesStay, LeaveStep DEF FindsKeys
<1>3. CASE FindsNone(i)
  <2> DEFINE s == Moved(r, "init")
  <2>1. inst' = [inst EXCEPT ![i] = s] /\ members = {}
    BY <1>3 DEF FindsNone, Moved
  <2>2. s.pc = "init" /\ s.key = NoKey /\ Consistent(s, members) /\ r.key = NoKey
    BY <1>0, <1>3, LocalStart DEF FindsNone, At, Moved, Consistent, InstanceState
  <2>3. UseOf(s) = Unused /\ UseOf(r) = Unused
    BY <1>0, <2>2, WithoutKey
  <2> HIDE DEF s
  <2>4. Uses' = Uses /\ Starters' = Starters \cup {i}
    BY <2>1, <2>2, <2>3, UseStep, UsesStay
  <2>5. UNCHANGED <<members, Withdrawn, Limited, Charges>>
    BY <1>3, EntriesStay DEF FindsNone
  <2>6. Ledger!FindEmpty(i)
    BY <2>1, <2>4, <2>5 DEF Ledger!FindEmpty, Ledger!entries, Withdrawn, Limited,
       Charges, Uses, UseOf, Starters
  <2>7. QED
    BY <2>6 DEF Ledger!Next
<1>4. CASE Initialise(i)
  <2> DEFINE s == Adopted(r)
             new == r.new
  <2>1. inst' = [inst EXCEPT ![i] = s] /\ r.pc = "init"
    BY <1>4 DEF Initialise, Adopt, Adopted, At
  <2>2. s.pc = "ready" /\ s.key = NoKey /\ Consistent(s, members) /\ r.key = NoKey
        /\ new \subseteq Keys
    BY <1>0, <2>1, LocalStart, ConfigsAssumption
    DEF Adopted, Consistent, InstanceState
  <2>3. UseOf(s) = Unused /\ UseOf(r) = Unused
    BY <1>0, <2>2, WithoutKey
  <2>4. members' = members \cup new
        /\ hash' = [k \in Keys |->
                      IF k \in new
                      THEN [Fields(k) EXCEPT !.blocked = "false", !.failures = 0]
                      ELSE hash[k]]
    BY <1>4 DEF Initialise
  <2> HIDE DEF s, new
  <2>5. Uses' = Uses /\ Starters' = Starters \ {i} /\ i \in Starters
    <3>1. i \in Starters
      BY <2>1 DEF Starters, At
    <3>2. QED
      BY <2>1, <2>2, <2>3, <3>1, UseStep, UsesStay
  <2>6. ASSUME NEW k \in Keys
        PROVE  /\ k \notin new => hash'[k] = hash[k]
               /\ k \in new =>
                    /\ hash'[k] # NoHash /\ hash'[k].blocked = "false"
                    /\ hash'[k].failures = 0
                    /\ hash'[k].expires = Fields(k).expires
    <3> DEFINE h == [Fields(k) EXCEPT !.blocked = "false", !.failures = 0]
    <3>1. h \in KeyHash /\ h.blocked = "false" /\ h.failures = 0
          /\ h.expires = Fields(k).expires
      BY FieldsType DEF KeyHash
    <3>2. hash'[k] = IF k \in new THEN h ELSE hash[k]
      BY <2>4
    <3> HIDE DEF h
    <3>3. QED
      BY <3>1, <3>2, NoHashAssumption
  <2>7. Withdrawn' = Withdrawn \ new
    BY <2>6 DEF Withdrawn, Blocked
  <2>8. Limited' = Limited
    <3>1. ASSUME NEW k \in Keys
          PROVE  (hash'[k] # NoHash /\ hash'[k].expires)
                   <=> (hash[k] # NoHash /\ hash[k].expires)
      BY <2>6 DEF Fields, EmptyHash
    <3>2. QED
      BY <3>1 DEF Limited
  <2>9. Charges' = [k \in Keys |-> IF k \in new THEN 0 ELSE Charges[k]]
    BY <2>6 DEF Charges, Fields
  <2>10. Ledger!Found(i, new)
    BY <2>4, <2>5, <2>7, <2>8, <2>9 DEF Ledger!Found, Withdrawn, Limited, Charges,
       Uses, UseOf, Starters
  <2>11. QED
    BY <2>2, <2>10 DEF Ledger!Next
<1>5. QED
  BY <1>1, <1>2, <1>3, <1>4

\* The walk for a key: the one it ends with is free when it is taken.
LEMMA LedgerWalk ==
  ASSUME LocalInv, NEW i \in Instances,
         \/ List(i) \/ GiveUp(i)
         \/ \E k \in Keys : TakeKey(i, k) \/ SkipKey(i, k)
  PROVE  Ledger!Next \/ UNCHANGED LedgerView
<1> DEFINE r == inst[i]
<1>0. Consistent(r, members) /\ r \in InstanceState
  BY Instance
<1>1. CASE List(i)
  <2>1. inst' = [inst EXCEPT ![i] = Listed(r, members)]
    BY <1>1 DEF List, Candidates, Listed
  <2>2. r.key = NoKey
    BY <1>0, <1>1 DEF List, At, Consistent
  <2>3. Consistent(Listed(r, members), members) /\ Listed(r, members).pc = "probe"
        /\ Listed(r, members).key = NoKey
    <3>1. Consistent(Listed(r, members), members)
      BY <1>0, <1>1, Instance, LocalWalk DEF List, At
    <3>2. Listed(r, members).pc = "probe" /\ Listed(r, members).key = NoKey
      BY <1>0, <2>2 DEF Listed, InstanceState
    <3>3. QED
      BY <3>1, <3>2
  <2>4. QED
    BY <1>1, <2>1, <2>3, WithoutKey, EntriesStay, LeaveStep DEF List
<1>2. CASE GiveUp(i)
  <2>1. inst' = [inst EXCEPT ![i] = Ended(r)]
    BY <1>2 DEF GiveUp, Serves, Ended
  <2>2. Consistent(Ended(r), members) /\ Ended(r).pc = "ready"
        /\ Ended(r).key = NoKey
    BY <1>0, <1>2, LocalEnd DEF GiveUp, At, Ended, InstanceState
  <2>3. QED
    BY <1>2, <2>1, <2>2, WithoutKey, EntriesStay, LeaveStep DEF GiveUp
<1>3. ASSUME NEW k \in Keys, TakeKey(i, k) PROVE Ledger!Next
  <2> DEFINE s == Taken(r, k)
  <2>1. inst' = [inst EXCEPT ![i] = s] /\ ~Blocked(k) /\ r.pc = "probe"
        /\ k \in r.left
    BY <1>3 DEF TakeKey, Taken, At
  <2>2. UseOf(r) = Unused
    BY <1>0, <2>1, WithoutKey DEF Consistent
  <2>3. s \in InstanceState /\ s.pc = "send" /\ s.key = k
    BY <1>0, <2>1, LocalWalk DEF Taken, Consistent, InstanceState
  <2>4. UseOf(s) = [key |-> k, stage |-> "holds"]
    BY <2>3, StageReads DEF UseOf
  <2> HIDE DEF s
  <2>5. /\ Uses' = [Uses EXCEPT ![i] = [key |-> k, stage |-> "holds"]]
        /\ Starters' = Starters
    <3>1. i \notin Starters
      BY <2>1 DEF Starters, At
    <3>2. QED
      BY <2>1, <2>3, <2>4, <3>1, UseStep
  <2>6. UNCHANGED <<members, Withdrawn, Limited, Charges>>
    BY <1>3, EntriesStay DEF TakeKey
  <2>7. k \in members \ Withdrawn /\ Uses[i] = Unused
    BY <1>0, <2>1, <2>2 DEF Consistent, Withdrawn, Uses
  <2>8. Ledger!CheckOut(i, k)
    BY <2>5, <2>6, <2>7 DEF Ledger!CheckOut, Ledger!entries, Ledger!NoUse, Withdrawn,
       Limited, Charges, Uses, UseOf, Starters, Unused
  <2>9. QED
    BY <2>8 DEF Ledger!Next
<1>4. ASSUME NEW k \in Keys, SkipKey(i, k) PROVE UNCHANGED LedgerView
  <2>1. inst' = [inst EXCEPT ![i] = Skipped(r, k)]
    BY <1>4 DEF SkipKey, Skipped
  <2>2. UseOf(Skipped(r, k)) = UseOf(r) /\ Skipped(r, k).pc = r.pc
    BY <1>0 DEF Skipped, InstanceState, UseOf, Stage
  <2>3. QED
    BY <1>4, <2>1, <2>2, EntriesStay, StutterStep DEF SkipKey
<1>5. QED
  BY <1>1, <1>2, <1>3, <1>4

\* The upstream call, and the decision what its response costs the key.
LEMMA LedgerSend ==
  ASSUME LocalInv, NEW i \in Instances,
         \/ Answer(i) \/ Limit(i)
         \/ \E terminal \in BOOLEAN : Refuse(i, terminal)
  PROVE  Ledger!Next \/ UNCHANGED LedgerView
<1> DEFINE r == inst[i]
<1>0. Consistent(r, members) /\ r \in InstanceState
  BY Instance
<1>1. CASE Answer(i)
  <2>1. inst' = [inst EXCEPT ![i] = Ended(r)]
    BY <1>1 DEF Answer, Serves, Ended
  <2>2. Consistent(Ended(r), members) /\ Ended(r).pc = "ready"
        /\ Ended(r).key = NoKey
    BY <1>0, <1>1, LocalEnd DEF Answer, At, Ended, InstanceState
  <2>3. QED
    BY <1>1, <2>1, <2>2, WithoutKey, EntriesStay, LeaveStep DEF Answer
<1>2. CASE Limit(i)
  <2>1. inst' = [inst EXCEPT ![i] = Moved(r, "limit")] /\ r.pc = "send"
    BY <1>2 DEF Limit, Moved, At
  <2>2. UseOf(Moved(r, "limit")) = UseOf(r) /\ Moved(r, "limit").pc = "limit"
    BY <1>0, <2>1 DEF Moved, InstanceState, UseOf, Stage
  <2>3. QED
    BY <1>2, <2>1, <2>2, EntriesStay, StutterStep DEF Limit
<1>3. ASSUME NEW t \in BOOLEAN, Refuse(i, t) PROVE UNCHANGED LedgerView
  <2>1. inst' = [inst EXCEPT ![i] = Refused(r, t)] /\ r.pc = "send"
    BY <1>3 DEF Refuse, Refused, At
  <2>2. UseOf(Refused(r, t)) = UseOf(r) /\ Refused(r, t).pc = "count"
    BY <1>0, <2>1 DEF Refused, InstanceState, UseOf, Stage
  <2>3. QED
    BY <1>3, <2>1, <2>2, EntriesStay, StutterStep DEF Refuse
<1>4. QED
  BY <1>1, <1>2, <1>3

\* A failure is counted: the count that the instance gets
\* back decides, whatever others counted in between.
LEMMA LedgerCount ==
  ASSUME LocalInv, NEW i \in Instances, CountFailure(i)
  PROVE  Ledger!Next
<1> DEFINE r == inst[i]
           k == r.key
           f == Fields(k).failures + 1
           b == ShouldBlock(r.terminal, f)
           h == [Fields(k) EXCEPT !.failures = f]
           s == Counted(r, b)
<1>1. /\ inst' = [inst EXCEPT ![i] = s] /\ hash' = [hash EXCEPT ![k] = h]
      /\ members' = members /\ r.pc = "count"
  BY DEF CountFailure, Counted, At
<1>2. k \in Keys /\ r \in InstanceState
  BY <1>1, Holds, Instance
<1>3. /\ h \in KeyHash /\ h.failures = f
      /\ h.blocked = Fields(k).blocked /\ h.expires = Fields(k).expires
  BY <1>2, FieldsType DEF KeyHash
<1>4. b \in BOOLEAN /\ s.pc = "stamp" /\ s.block = b /\ s.key = k /\ s \in InstanceState
  BY <1>2 DEF ShouldBlock, Counted, InstanceState
<1>5. /\ UseOf(r) = [key |-> k, stage |-> "holds"]
      /\ UseOf(s) = [key |-> k, stage |-> IF b THEN "due" ELSE "charged"]
  BY <1>1, <1>2, <1>4, StageReads DEF UseOf
<1>6. Ledger!Due(r.terminal, f) = b
  BY DEF Ledger!Due, ShouldBlock
<1> DEFINE to == IF b THEN "due" ELSE "charged"
<1> HIDE DEF h, b, s
<1>7. /\ Charges' = [Charges EXCEPT ![k] = f]
      /\ Withdrawn' = Withdrawn /\ Limited' = Limited
      /\ f = Charges[k] + 1
  <2>1. Charges' = [Charges EXCEPT ![k] = f] /\ Withdrawn' = Withdrawn
        /\ Limited' = Limited
    BY <1>1, <1>2, <1>3, EntryStep
  <2>2. f = Charges[k] + 1
    BY <1>2 DEF Charges
  <2>3. QED
    BY <2>1, <2>2
<1> HIDE DEF f
<1>8. /\ Uses' = [Uses EXCEPT ![i].stage = to]
      /\ Uses[i] = [key |-> k, stage |-> "holds"]
      /\ Starters' = Starters
  <2>1. Uses' = [Uses EXCEPT ![i] = UseOf(s)] /\ Starters' = Starters \ {i}
    BY <1>1, <1>4, UseStep
  <2>2. Uses[i] = [key |-> k, stage |-> "holds"]
    BY <1>5 DEF Uses
  <2>3. UseOf(s) = [Uses[i] EXCEPT !.stage = to]
    BY <1>5, <2>2
  <2>4. i \notin Starters
    BY <1>1 DEF Starters, At
  <2>5. QED
    BY <2>1, <2>2, <2>3, <2>4
<1>9. PICK t \in BOOLEAN : t = r.terminal
  BY <1>2 DEF InstanceState
<1>10. Ledger!Charge(i, t)
  <2>1. /\ Uses[i].stage = "holds" /\ Uses[i].key = k
        /\ Charges' = [Charges EXCEPT ![Uses[i].key] = Charges[Uses[i].key] + 1]
    BY <1>7, <1>8
  <2>2. Uses' = [Uses EXCEPT ![i].stage =
                   IF Ledger!Due(t, Charges[Uses[i].key] + 1)
                   THEN "due" ELSE "charged"]
    BY <1>6, <1>7, <1>8, <1>9, <2>1
  <2>3. QED
    BY <1>1, <1>7, <1>8, <2>1, <2>2
    DEF Ledger!Charge, Withdrawn, Limited, Charges, Uses, UseOf, Starters
<1>11. QED
  BY <1>10 DEF Ledger!Next

\* The stamp is no entry: it ends the use, or goes on to the block.
LEMMA LedgerStamp ==
  ASSUME LocalInv, NEW i \in Instances, Stamp(i)
  PROVE  Ledger!Next \/ UNCHANGED LedgerView
<1> DEFINE r == inst[i]
           k == r.key
<1>0. Consistent(r, members) /\ r \in InstanceState /\ r.pc = "stamp" /\ k \in Keys
  BY Instance, Holds DEF Stamp, At
<1>1. UNCHANGED <<members, Withdrawn, Limited, Charges>>
  <2>1. hash' = [hash EXCEPT ![k] = Fields(k)] /\ members' = members
    BY DEF Stamp
  <2>2. QED
    BY <1>0, <2>1, FieldsType, EntryStep
<1>2. CASE r.block
  <2>1. inst' = [inst EXCEPT ![i] = Moved(r, "block")]
    BY <1>2 DEF Stamp, Moved
  <2>2. UseOf(Moved(r, "block")) = UseOf(r) /\ Moved(r, "block").pc = "block"
    BY <1>0, <1>2 DEF Moved, InstanceState, UseOf, Stage
  <2>3. QED
    BY <1>0, <1>1, <2>1, <2>2, StutterStep
<1>3. CASE ~r.block
  <2>1. inst' = [inst EXCEPT ![i] = Ended(r)]
    BY <1>3 DEF Stamp, Serves, Ended
  <2>2. Consistent(Ended(r), members)
    BY <1>0, LocalEnd
  <2>3. Ended(r).pc = "ready" /\ Ended(r).key = NoKey
    BY <1>0 DEF Ended, InstanceState
  <2>4. QED
    BY <1>1, <2>1, <2>2, <2>3, WithoutKey, LeaveStep
<1>4. QED
  BY <1>2, <1>3

\* A block reaches Redis, for good or until its time is over.
LEMMA LedgerBlock ==
  ASSUME TrueText = "true", LocalInv, NEW i \in Instances,
         Block(i) \/ SetRateLimited(i)
  PROVE  Ledger!Next
<1> DEFINE r == inst[i]
           k == r.key
           s == Ended(r)
<1>0. /\ Consistent(r, members) /\ r \in InstanceState /\ k \in Keys
      /\ r.pc \in {"block", "limit"}
  BY Instance, Holds DEF Block, SetRateLimited, At
<1>1. inst' = [inst EXCEPT ![i] = s] /\ members' = members
  BY DEF Block, SetRateLimited, Serves, Ended
<1>2. UseOf(s) = Unused /\ s.pc = "ready"
  <2>1. Consistent(s, members)
    BY <1>0, LocalEnd
  <2>2. s.pc = "ready" /\ s.key = NoKey
    BY <1>0 DEF Ended, InstanceState
  <2>3. QED
    BY <2>1, <2>2, WithoutKey
<1> HIDE DEF s
<1>3. Uses' = [Uses EXCEPT ![i] = Unused] /\ Starters' = Starters
  <2>1. i \notin Starters
    BY <1>0 DEF Starters, At
  <2>2. Uses' = [Uses EXCEPT ![i] = UseOf(s)] /\ Starters' = Starters \ {i}
    BY <1>1, <1>2, UseStep
  <2>3. QED
    BY <1>2, <2>1, <2>2
<1>4. Uses[i] = [key |-> k, stage |-> Stage(r)]
  BY DEF Uses, UseOf
<1>5. CASE Block(i)
  <2> DEFINE h == [Fields(k) EXCEPT !.blocked = TrueText]
  <2>1. hash' = [hash EXCEPT ![k] = h] /\ r.pc = "block"
    BY <1>5 DEF Block, At
  <2>2. h \in KeyHash /\ h.blocked = "true" /\ h.failures = Fields(k).failures
        /\ h.expires = Fields(k).expires
    BY <1>0, FieldsType DEF KeyHash
  <2>3. Uses[i].stage = "due" /\ Uses[i].key = k
    BY <1>0, <1>4, <2>1, StageReads
  <2> HIDE DEF h
  <2>4. Withdrawn' = Withdrawn \cup {Uses[i].key} /\ Limited' = Limited
        /\ Charges' = Charges
    BY <1>0, <2>1, <2>2, <2>3, EntryStep
  <2>5. Ledger!Withdraw(i)
    BY <1>1, <1>3, <2>3, <2>4 DEF Ledger!Withdraw, Ledger!NoUse, Withdrawn, Limited,
       Charges, Uses, UseOf, Starters, Unused
  <2>6. QED
    BY <2>5 DEF Ledger!Next
<1>6. CASE SetRateLimited(i)
  <2> DEFINE h == [Fields(k) EXCEPT !.blocked = TrueText, !.expires = TRUE]
  <2>1. hash' = [hash EXCEPT ![k] = h] /\ r.pc = "limit"
    BY <1>6 DEF SetRateLimited, At
  <2>2. h \in KeyHash /\ h.blocked = "true" /\ h.failures = Fields(k).failures
        /\ h.expires
    BY <1>0, FieldsType DEF KeyHash
  <2>3. Uses[i].stage = "holds" /\ Uses[i].key = k
    BY <1>0, <1>4, <2>1, StageReads
  <2> HIDE DEF h
  <2>4. Withdrawn' = Withdrawn \cup {Uses[i].key}
        /\ Limited' = Limited \cup {Uses[i].key} /\ Charges' = Charges
    BY <1>0, <2>1, <2>2, <2>3, EntryStep
  <2>5. Ledger!WithdrawForNow(i)
    BY <1>1, <1>3, <2>3, <2>4 DEF Ledger!WithdrawForNow, Ledger!NoUse, Withdrawn,
       Limited, Charges, Uses, UseOf, Starters, Unused
  <2>6. QED
    BY <2>5 DEF Ledger!Next
<1>7. QED
  BY <1>5, <1>6

\* An instance that breaks off or crashes leaves what it was doing.
LEMMA LedgerFault ==
  ASSUME LocalInv, NEW i \in Instances, Break(i) \/ Crash(i)
  PROVE  Ledger!Next
<1> DEFINE r == inst[i]
           label == IF r.keys = {} THEN "down" ELSE "ready"
<1>0. Consistent(r, members) /\ r \in InstanceState
  BY Instance
<1>1. UNCHANGED <<members, Withdrawn, Limited, Charges>>
  BY EntriesStay DEF Break, Crash
<1>2. CASE Break(i)
  <2>1. inst' = [inst EXCEPT ![i] = Broken(r, label)]
    BY <1>2 DEF Break, Broken
  <2>2. Consistent(Broken(r, label), members)
    BY <1>0, LocalEnd
  <2>3. Broken(r, label).pc # "init" /\ Broken(r, label).key = NoKey
    BY <1>0 DEF Broken, InstanceState
  <2>4. QED
    BY <1>1, <2>1, <2>2, <2>3, WithoutKey, LeaveStep
<1>3. CASE Crash(i)
  <2>1. inst' = [inst EXCEPT ![i] = Down]
    BY <1>3 DEF Crash, Down
  <2>2. Consistent(Down, members)
    BY <1>0, LocalEnd
  <2>3. Down.pc # "init" /\ Down.key = NoKey
    BY DEF Down
  <2>4. QED
    BY <1>1, <2>1, <2>2, <2>3, WithoutKey, LeaveStep
<1>4. QED
  BY <1>2, <1>3

\* A hash whose time is over is gone, and with it what it said.
LEMMA LedgerExpiry ==
  ASSUME LocalInv, NEW k \in Keys, Expire(k)
  PROVE  Ledger!Next
<1>1. /\ hash' = [hash EXCEPT ![k] = NoHash] /\ members' = members /\ inst' = inst
      /\ k \in Limited
  BY DEF Expire, Limited
<1>2. hash'[k] = NoHash /\ \A j \in Keys \ {k} : hash'[j] = hash[j]
  BY <1>1 DEF LocalInv, TypeOK
<1>3. Withdrawn' = Withdrawn \ {k} /\ Limited' = Limited \ {k}
  BY <1>2 DEF Withdrawn, Limited, Blocked
<1>4. Charges' = [Charges EXCEPT ![k] = 0]
  BY <1>2 DEF Charges, Fields, EmptyHash
<1>5. Uses' = Uses /\ Starters' = Starters
  BY <1>1 DEF Uses, Starters, UseOf, Stage, At
<1>6. Ledger!Return(k)
  BY <1>1, <1>3, <1>4, <1>5
  DEF Ledger!Return, Withdrawn, Limited, Charges, Uses, UseOf, Starters
<1>7. QED
  BY <1>6 DEF Ledger!Next

\* Every step of the store is a step of the ledger, or none at all.
LEMMA LedgerStep ==
  ASSUME TrueText = "true", LocalInv, [Next]_vars
  PROVE  Ledger!Next \/ UNCHANGED LedgerView
<1>1. ASSUME NEW i \in Instances,
             Build(i) \/ FindsKeys(i) \/ FindsNone(i) \/ Initialise(i)
      PROVE  Ledger!Next \/ UNCHANGED LedgerView
  BY <1>1, LedgerStart
<1>2. ASSUME NEW i \in Instances,
             \/ List(i) \/ GiveUp(i)
             \/ \E k \in Keys : TakeKey(i, k) \/ SkipKey(i, k)
      PROVE  Ledger!Next \/ UNCHANGED LedgerView
  BY <1>2, LedgerWalk
<1>3. ASSUME NEW i \in Instances,
             \/ Answer(i) \/ Limit(i)
             \/ \E terminal \in BOOLEAN : Refuse(i, terminal)
      PROVE  Ledger!Next \/ UNCHANGED LedgerView
  BY <1>3, LedgerSend
<1>4. ASSUME NEW i \in Instances,
             CountFailure(i) \/ Stamp(i) \/ Block(i) \/ SetRateLimited(i)
      PROVE  Ledger!Next \/ UNCHANGED LedgerView
  BY <1>4, LedgerCount, LedgerStamp, LedgerBlock
<1>5. ASSUME NEW i \in Instances, Break(i) \/ Crash(i) PROVE Ledger!Next
  BY <1>5, LedgerFault
<1>6. ASSUME NEW k \in Keys, Expire(k) PROVE Ledger!Next
  BY <1>6, LedgerExpiry
<1>7. CASE UNCHANGED vars
  BY <1>7 DEF vars, redis, LedgerView, Withdrawn, Limited, Charges, Uses, UseOf, Stage,
     Starters, At, Blocked, Fields
<1>8. QED
  BY <1>1, <1>2, <1>3, <1>4, <1>5, <1>6, <1>7, Zenon DEF Next

\* If the client library writes a bool the way parse_key_state reads it, the
\* store, with its several commands for one entry, its expiries and its faults,
\* implements the ledger whose entries are made at once.
THEOREM ImplementsKeyLedger ==
  ASSUME TrueText = "true" PROVE Spec => ImplementsLedger
<1>1. Init => Ledger!Init
  <2> SUFFICES ASSUME Init PROVE Ledger!Init
    OBVIOUS
  <2>1. Withdrawn = {} /\ Limited = {} /\ Charges = [k \in Keys |-> 0]
    BY DEF Init, Withdrawn, Limited, Charges, Blocked, Fields, EmptyHash
  <2>2. Uses = [i \in Instances |-> Unused] /\ Starters = {} /\ members = {}
    BY DEF Init, Uses, UseOf, Stage, Unused, Starters, At
  <2>3. QED
    BY <2>1, <2>2 DEF Ledger!Init, Ledger!NoUse, Withdrawn, Limited, Charges, Uses,
       UseOf, Starters, Unused
<1>2. LocalInv /\ [Next]_vars => [Ledger!Next]_(Ledger!vars)
  BY LedgerStep
  DEF LedgerView, Ledger!vars, Ledger!entries, Withdrawn, Limited, Charges, Uses,
      UseOf, Starters
<1>3. QED
  BY <1>1, <1>2, LocalInvariant, PTL DEF Spec, ImplementsLedger, Ledger!Spec
=============================================================================
