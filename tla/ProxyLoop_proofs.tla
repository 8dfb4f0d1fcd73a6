-------------------------- MODULE ProxyLoop_proofs --------------------------
(***************************************************************************)
(* The proxy loop for any number of requests, keys, groups and reloads.    *)
(* First what the operators of the key manager return, for every           *)
(* configuration, and that the walk round the ring misses no candidate;    *)
(* then the loop, the bound on its attempts, and the evenness of the turns. *)
(***************************************************************************)
EXTENDS RetryHistory, RotationHistory, Integers, FiniteSetTheorems,
        WellFoundedInduction, TLAPS

\* A nonempty set of numbers has a least element.
LEMMA LeastNumber ==
  ASSUME NEW T \in SUBSET Nat, T # {}
  PROVE  \E m \in T : \A n \in T : m <= n
<1>1. PICK m \in T : \A n \in T : ~ (<<n, m>> \in OpToRel(<, Nat))
  BY NatLessThanWellFounded, WFMin, Zenon
<1>2. \A n \in T : ~ (n < m)
  BY <1>1 DEF OpToRel
<1>3. QED
  BY <1>2

\* The groups of a configuration, by position.
LEMMA ConfigGroups ==
  ASSUME NEW cfg \in Config
  PROVE  /\ DOMAIN cfg.groups \subseteq Nat
         /\ \A i \in DOMAIN cfg.groups :
              /\ cfg.groups[i].name \in Groups
              /\ cfg.groups[i].keys \subseteq Keys
<1>1. cfg.groups \in Seq(Group)
  BY DEF Config
<1>2. /\ DOMAIN cfg.groups = 1..Len(cfg.groups)
      /\ Len(cfg.groups) \in Nat
      /\ \A i \in 1..Len(cfg.groups) : cfg.groups[i] \in Group
  BY <1>1
<1>3. \A g \in Group : g.name \in Groups /\ g.keys \subseteq Keys
  BY DEF Group
<1>4. QED
  BY <1>2, <1>3

\* get_group_for_model returns a group, or none.
LEMMA GroupForModelType ==
  ASSUME NEW cfg \in Config, NEW model
  PROVE  GroupForModel(cfg, model) \in Groups \cup {NoGroup}
<1> DEFINE D == DOMAIN cfg.groups
           serves(i) == model \in cfg.groups[i].aliases
           serving == {i \in D : serves(i)}
           least(i) == serves(i) /\ \A j \in D : serves(j) => i <= j
<1>1. D \subseteq Nat /\ \A i \in D : cfg.groups[i].name \in Groups
  BY ConfigGroups
<1>2. ASSUME \E i \in D : serves(i)
      PROVE  cfg.groups[CHOOSE i \in D : least(i)].name \in Groups
  <2>1. PICK m \in serving : \A n \in serving : m <= n
    BY <1>1, <1>2, LeastNumber
  <2>2. \E i \in D : least(i)
    BY <2>1
  <2>3. (CHOOSE i \in D : least(i)) \in D
    BY <2>2
  <2>4. QED
    BY <1>1, <2>3
<1>3. QED
  BY <1>2 DEF GroupForModel

\* build_key_info_map gives every configured key one group.
LEMMA BuildKeyInfoMapType ==
  ASSUME NEW cfg \in Config
  PROVE  /\ ConfiguredKeys(cfg) \subseteq Keys
         /\ BuildKeyInfoMap(cfg) \in [ConfiguredKeys(cfg) -> Groups]
<1>1. \A i \in DOMAIN cfg.groups :
        cfg.groups[i].name \in Groups /\ cfg.groups[i].keys \subseteq Keys
  BY ConfigGroups
<1>2. ConfiguredKeys(cfg) \subseteq Keys
  BY <1>1 DEF ConfiguredKeys
<1>3. ASSUME NEW k \in ConfiguredKeys(cfg)
      PROVE  cfg.groups[CHOOSE i \in DOMAIN cfg.groups :
                          k \in cfg.groups[i].keys].name \in Groups
  <2>1. \E i \in DOMAIN cfg.groups : k \in cfg.groups[i].keys
    BY DEF ConfiguredKeys
  <2>2. QED
    BY <1>1, <2>1
<1>4. QED
  BY <1>2, <1>3 DEF BuildKeyInfoMap
-----------------------------------------------------------------------------
\* The remainder of a number with a known quotient.
LEMMA RemainderOf ==
  ASSUME NEW n \in Nat \ {0}, NEW q \in Nat, NEW m \in 0..(n - 1), NEW c \in Nat,
         c = n * q + m
  PROVE  c % n = m
<1>1. ASSUME NEW x \in Nat, NEW y \in Nat, x < y
      PROVE  n * x + n <= n * y
  <2>1. n * (y - x) >= n
    BY <1>1
  <2>2. QED
    BY <1>1, <2>1
<1> DEFINE y == c \div n
           r == c % n
<1>2. y \in Nat /\ r \in 0..(n - 1) /\ c = n * y + r
  OBVIOUS
<1> HIDE DEF y, r
<1>3. ~(q < y) /\ ~(y < q)
  BY <1>1, <1>2
<1>4. r = m
  BY <1>2, <1>3
<1>5. QED
  BY <1>4 DEF r

\* n steps from any start visit every position of a ring of n.
LEMMA RingCovered ==
  ASSUME NEW n \in Nat \ {0}, NEW s \in Nat, NEW p \in 0..(n - 1)
  PROVE  \E i \in 0..(n - 1) : (s + i) % n = p
<1> DEFINE d == s \div n
           q == s % n
           i == IF q <= p THEN p - q ELSE p - q + n
           e == IF q <= p THEN d ELSE d + 1
<1>1. d \in Nat /\ q \in 0..(n - 1) /\ s = n * d + q
  OBVIOUS
<1>2. i \in 0..(n - 1) /\ e \in Nat /\ s + i = n * e + p
  BY <1>1
<1> HIDE DEF i, e
<1>3. (s + i) % n = p
  <2>1. s + i \in Nat
    BY <1>2
  <2>2. \A c \in Nat : c = n * e + p => c % n = p
    BY <1>2, RemainderOf
  <2>3. QED
    BY <1>2, <2>1, <2>2
<1>4. QED
  BY <1>2, <1>3

\* The candidates are finitely many and the ring holds nothing else.
LEMMA CandidateAtType ==
  ASSUME NEW S \in SUBSET Keys, S # {}, NEW i \in Nat
  PROVE  Cardinality(S) \in Nat \ {0} /\ CandidateAt(S, i) \in S
<1>1. Cardinality(S) \in Nat \ {0}
  BY SortedKeysAssumption, FS_Subset, FS_CardinalityType, FS_EmptySet
<1>2. (i % Cardinality(S)) + 1 \in 1..Cardinality(S)
  BY <1>1
<1>3. SortedKeys[S] \in [1..Cardinality(S) -> S]
  BY SortedKeysAssumption
<1>4. QED
  BY <1>1, <1>2, <1>3 DEF CandidateAt

\* Wherever the rotation starts, the walk of select_key meets every candidate.
LEMMA WalkMeetsAll ==
  ASSUME NEW S \in SUBSET Keys, NEW s \in Nat, NEW k \in S
  PROVE  \E i \in 0..(Cardinality(S) - 1) : CandidateAt(S, s + i) = k
<1> DEFINE n == Cardinality(S)
<1>1. n \in Nat \ {0}
  BY CandidateAtType
<1>2. PICK j \in 1..n : SortedKeys[S][j] = k
  BY SortedKeysAssumption
<1> HIDE DEF n
<1>3. PICK i \in 0..(n - 1) : (s + i) % n = j - 1
  <2>1. j - 1 \in 0..(n - 1)
    BY <1>1
  <2>2. QED
    BY <1>1, <2>1, RingCovered
<1>4. ((s + i) % n) + 1 = j
  BY <1>1, <1>3
<1>5. QED
  BY <1>2, <1>4 DEF CandidateAt, n
-----------------------------------------------------------------------------

\* While a request walks the ring its candidates are the keys of its group, and
\* every one it has passed is blocked: the key manager lock it holds for
\* reading keeps both true.
Walking(r) ==
  At(r, "probe") =>
    /\ req[r].cands = CandidateKeys(req[r].group)
    /\ req[r].cands # {}
    /\ req[r].probe < Cardinality(req[r].cands)
    /\ \A i \in 0..(req[r].probe - 1) :
         ~SeenAvailable(CandidateAt(req[r].cands, req[r].start + i))

\* A request answers for a key from the moment it is handed one until it has
\* reported on it.
HoldsKey(r) ==
  IF req[r].pc \in {"send", "report"} THEN req[r].key \in Keys
                                      ELSE req[r].key = NoKey

LoopInv == TypeOK /\ \A r \in Requests : Walking(r) /\ HoldsKey(r)

\* The candidates are configured keys that the store knows.
LEMMA CandidatesKnown ==
  ASSUME TypeOK, NEW g
  PROVE  CandidateKeys(g) \subseteq DOMAIN keyStates /\ DOMAIN keyStates \subseteq Keys
BY DEF CandidateKeys, TypeOK, ManagerTypeOK, StoreTypeOK

\* A request at the key it looks at: a candidate, hence a key of the store.
LEMMA ProbedIsCandidate ==
  ASSUME LoopInv, NEW r \in Requests, At(r, "probe")
  PROVE  /\ Probed(r) \in req[r].cands
         /\ Probed(r) \in DOMAIN keyStates
         /\ Probed(r) \in Keys
<1>1. /\ req[r].cands \in SUBSET Keys
      /\ req[r].start \in Nat /\ req[r].probe \in Nat
  BY DEF LoopInv, TypeOK, RequestState
<1>2. req[r].cands = CandidateKeys(req[r].group) /\ req[r].cands # {}
  BY DEF LoopInv, Walking
<1>3. Probed(r) \in req[r].cands
  BY <1>1, <1>2, CandidateAtType DEF Probed
<1>4. QED
  BY <1>2, <1>3, CandidatesKnown DEF LoopInv

\* A step of one request that leaves the keys alone disturbs no other request.
LEMMA StepOfOne ==
  ASSUME LoopInv, NEW r \in Requests,
         UNCHANGED <<keyInfo, keyStates, maxFailures, config, reloads>>,
         counters' \in [CounterId -> Nat],
         req' \in [Requests -> RequestState],
         \A q \in Requests \ {r} : req'[q] = req[q],
         Walking(r)', HoldsKey(r)'
  PROVE  LoopInv'
<1>1. TypeOK'
  BY DEF LoopInv, TypeOK, ManagerTypeOK, StoreTypeOK
<1>2. ASSUME NEW q \in Requests, q # r PROVE Walking(q)' /\ HoldsKey(q)'
  BY <1>2 DEF LoopInv, Walking, HoldsKey, At, CandidateKeys, SeenAvailable
<1>3. QED
  BY <1>1, <1>2 DEF LoopInv

\* The same for a step that records something about keys: no request is walking.
LEMMA WriteStep ==
  ASSUME LoopInv, NEW r \in Requests, WriteLockFree,
         req' \in [Requests -> RequestState],
         \A q \in Requests \ {r} : req'[q] = req[q],
         req'[r].pc # "probe", HoldsKey(r)', TypeOK'
  PROVE  LoopInv'
<1>1. ASSUME NEW q \in Requests PROVE Walking(q)'
  BY DEF WriteLockFree, Readers, Walking, At
<1>2. ASSUME NEW q \in Requests, q # r PROVE HoldsKey(q)'
  BY <1>2 DEF LoopInv, HoldsKey
<1>3. QED
  BY <1>1, <1>2 DEF LoopInv

\* A request that is answered holds nothing any more.
LEMMA AnswerStep ==
  ASSUME LoopInv, NEW r \in Requests, NEW a \in Answers, Answer(r, a),
         UNCHANGED <<managerVars, config, reloads>>
  PROVE  LoopInv'
<1> DEFINE s == [req[r] EXCEPT !.pc = "done", !.answer = a, !.cands = {},
                               !.start = 0, !.probe = 0, !.key = NoKey,
                               !.reply = NoReply]
<1>1. /\ req \in [Requests -> RequestState]
      /\ counters \in [CounterId -> Nat]
  BY DEF LoopInv, TypeOK, ManagerTypeOK, StoreTypeOK
<1>2. /\ req' \in [Requests -> RequestState]
      /\ \A q \in Requests \ {r} : req'[q] = req[q]
      /\ req'[r].pc = "done" /\ req'[r].key = NoKey
  <2>1. req[r] \in RequestState
    BY <1>1
  <2>2. s \in RequestState /\ s.pc = "done" /\ s.key = NoKey
    BY <2>1 DEF RequestState
  <2>3. req' = [req EXCEPT ![r] = s]
    BY DEF Answer
  <2> HIDE DEF s
  <2>4. QED
    BY <1>1, <2>2, <2>3
<1>3. Walking(r)' /\ HoldsKey(r)'
  BY <1>2 DEF Walking, HoldsKey, At
<1>4. QED
  BY <1>1, <1>2, <1>3, StepOfOne DEF managerVars, storeVars

\* What a request without a key answers is an answer.
LEMMA ExhaustedAnswerType ==
  ASSUME TypeOK, NEW r \in Requests
  PROVE  ExhaustedAnswer(r) \in {"noKeys", "badGateway", "lastResponse"}
<1>1. req[r].last \in {"none", "serverError", "clientError"}
  BY DEF TypeOK, RequestState
<1>2. QED
  BY <1>1 DEF ExhaustedAnswer
-----------------------------------------------------------------------------
\* The steps on the way to a key.
LEMMA RouteStep ==
  ASSUME LoopInv, NEW r \in Requests, Arrive(r) \/ Route(r)
  PROVE  LoopInv'
<1> DEFINE g == GroupForModel(config, req[r].model)
           s == IF At(r, "idle") THEN [req[r] EXCEPT !.pc = "route"]
                ELSE [req[r] EXCEPT !.pc = "select", !.group = g]
<1>1. /\ req \in [Requests -> RequestState] /\ req[r] \in RequestState
      /\ counters \in [CounterId -> Nat]
      /\ config \in Config
      /\ req[r].pc \in {"idle", "route"} /\ req[r].key = NoKey
  BY ConfigsAssumption
     DEF LoopInv, TypeOK, ManagerTypeOK, StoreTypeOK, HoldsKey, Arrive, Route, At
<1>2. g \in Groups \cup {NoGroup}
  BY <1>1, GroupForModelType
<1> HIDE DEF g
<1>3. s \in RequestState /\ s.pc \in {"route", "select"} /\ s.key = NoKey
  BY <1>1, <1>2 DEF RequestState
<1>4. req' = [req EXCEPT ![r] = s]
  BY <1>1 DEF Arrive, Route, At, g
<1> HIDE DEF s
<1>5. /\ req' \in [Requests -> RequestState]
      /\ \A q \in Requests \ {r} : req'[q] = req[q]
      /\ req'[r].pc \in {"route", "select"} /\ req'[r].key = NoKey
  BY <1>1, <1>3, <1>4
<1>6. Walking(r)' /\ HoldsKey(r)'
  BY <1>5 DEF Walking, HoldsKey, At
<1>7. QED
  BY <1>1, <1>5, <1>6, StepOfOne DEF Arrive, Route, managerVars, storeVars

\* Drawing an index keeps the invariant.
LEMMA DrawStep ==
  ASSUME LoopInv, NEW r \in Requests, DrawIndex(r)
  PROVE  LoopInv'
<1> DEFINE g == req[r].group
           id == GroupId(g)
           C == CandidateKeys(g)
           s == [req[r] EXCEPT !.pc = "probe", !.cands = C,
                               !.start = counters[id], !.probe = 0]
<1>1. /\ req \in [Requests -> RequestState] /\ req[r] \in RequestState
      /\ counters \in [CounterId -> Nat]
      /\ g \in Groups \cup {NoGroup}
      /\ req[r].key = NoKey /\ C # {}
  BY DEF LoopInv, TypeOK, ManagerTypeOK, StoreTypeOK, RequestState, HoldsKey,
         DrawIndex, At
<1>2. id \in CounterId
  BY <1>1 DEF GroupId, CounterId
<1>3. C \subseteq Keys
  BY CandidatesKnown DEF LoopInv
<1> HIDE DEF id, C
<1>4. /\ s \in RequestState
      /\ s.pc = "probe" /\ s.key = NoKey /\ s.cands = C /\ s.group = g
      /\ s.probe = 0
  BY <1>1, <1>2, <1>3 DEF RequestState
<1>5. req' = [req EXCEPT ![r] = s] /\ UNCHANGED <<keyInfo, keyStates>>
  BY DEF DrawIndex, NextRotationIndex, id, C
<1>6. counters' \in [CounterId -> Nat]
  BY <1>1, <1>2 DEF DrawIndex, NextRotationIndex, id
<1> HIDE DEF s
<1>7. /\ req' \in [Requests -> RequestState]
      /\ \A q \in Requests \ {r} : req'[q] = req[q]
      /\ req'[r] = s
  BY <1>1, <1>4, <1>5
<1>8. Walking(r)'
  <2>1. CandidateKeys(g)' = C
    BY <1>5, <1>7, <1>4 DEF C, CandidateKeys
  <2>2. Cardinality(C) \in Nat \ {0}
    BY <1>1, <1>3, CandidateAtType
  <2>3. req'[r].group = g
    BY <1>4, <1>7
  <2>4. (CandidateKeys(req[r].group))' = C
    BY <1>5, <2>3 DEF C, CandidateKeys
  <2>5. QED
    BY <1>1, <1>4, <1>7, <2>2, <2>4 DEF Walking
<1>9. HoldsKey(r)'
  BY <1>4, <1>7 DEF HoldsKey
<1>10. QED
  BY <1>5, <1>6, <1>7, <1>8, <1>9, StepOfOne DEF DrawIndex

\* Taking a key keeps the invariant.
LEMMA TakeStep ==
  ASSUME LoopInv, NEW r \in Requests, TakeKey(r)
  PROVE  LoopInv'
<1> DEFINE k == Probed(r)
           s == [req[r] EXCEPT !.pc = "send", !.key = k, !.cands = {},
                               !.start = 0, !.probe = 0]
<1>1. /\ req \in [Requests -> RequestState] /\ req[r] \in RequestState
      /\ counters \in [CounterId -> Nat]
  BY DEF LoopInv, TypeOK, ManagerTypeOK, StoreTypeOK
<1>2. k \in Keys
  BY ProbedIsCandidate DEF TakeKey
<1>3. req' = [req EXCEPT ![r] = s]
  BY DEF TakeKey
<1> HIDE DEF k
<1>4. s \in RequestState /\ s.pc = "send" /\ s.key = k
  BY <1>1, <1>2 DEF RequestState
<1> HIDE DEF s
<1>5. /\ req' \in [Requests -> RequestState]
      /\ \A q \in Requests \ {r} : req'[q] = req[q]
      /\ req'[r].pc = "send" /\ req'[r].key \in Keys
  BY <1>1, <1>2, <1>3, <1>4
<1>6. Walking(r)' /\ HoldsKey(r)'
  BY <1>5 DEF Walking, HoldsKey, At
<1>7. QED
  BY <1>1, <1>5, <1>6, StepOfOne DEF TakeKey, managerVars, storeVars

\* Passing a blocked key keeps the invariant.
LEMMA SkipStep ==
  ASSUME LoopInv, NEW r \in Requests, SkipKey(r)
  PROVE  LoopInv'
<1> DEFINE s == [req[r] EXCEPT !.probe = req[r].probe + 1]
           n == Cardinality(req[r].cands)
<1>1. /\ req \in [Requests -> RequestState] /\ req[r] \in RequestState
      /\ counters \in [CounterId -> Nat]
      /\ req[r].cands \in SUBSET Keys
      /\ req[r].start \in Nat /\ req[r].probe \in Nat
      /\ req[r].pc = "probe" /\ req[r].key = NoKey
  BY DEF LoopInv, TypeOK, ManagerTypeOK, StoreTypeOK, RequestState, HoldsKey,
         SkipKey, At
<1>2. /\ req[r].cands = CandidateKeys(req[r].group) /\ req[r].cands # {}
      /\ req[r].probe < n
      /\ \A i \in 0..(req[r].probe - 1) :
           ~SeenAvailable(CandidateAt(req[r].cands, req[r].start + i))
  BY <1>1 DEF LoopInv, Walking, At
<1>3. n \in Nat
  BY <1>1, <1>2, CandidateAtType
<1>4. req[r].probe + 1 < n
  BY <1>1, <1>2, <1>3 DEF SkipKey, LastProbe
<1>5. \A i \in 0..req[r].probe :
        ~SeenAvailable(CandidateAt(req[r].cands, req[r].start + i))
  BY <1>1, <1>2 DEF SkipKey, Probed
<1>6. /\ s \in RequestState /\ s.pc = "probe" /\ s.key = NoKey
      /\ s.cands = req[r].cands /\ s.group = req[r].group
      /\ s.start = req[r].start /\ s.probe = req[r].probe + 1
  BY <1>1 DEF RequestState
<1>7. req' = [req EXCEPT ![r] = s] /\ UNCHANGED <<keyInfo, keyStates>>
  BY DEF SkipKey, managerVars, storeVars
<1> HIDE DEF s
<1>8. /\ req' \in [Requests -> RequestState]
      /\ \A q \in Requests \ {r} : req'[q] = req[q]
      /\ req'[r] = s
  BY <1>1, <1>6, <1>7
<1>9. Walking(r)'
  <2>1. /\ req'[r].cands = req[r].cands /\ req'[r].group = req[r].group
        /\ req'[r].start = req[r].start /\ req'[r].probe = req[r].probe + 1
    BY <1>6, <1>8
  <2>2. (CandidateKeys(req[r].group))' = req[r].cands
    BY <1>2, <1>7, <2>1 DEF CandidateKeys
  <2>3. (req[r].probe)' - 1 = req[r].probe
    BY <1>1, <2>1
  <2>4. \A i \in 0..(req[r].probe)' - 1 :
          ~SeenAvailable(CandidateAt(req[r].cands, req[r].start + i))'
    BY <1>5, <1>7, <2>1, <2>3 DEF SeenAvailable, CandidateAt
  <2>5. QED
    BY <1>2, <1>4, <2>1, <2>2, <2>4 DEF Walking
<1>10. HoldsKey(r)'
  BY <1>6, <1>8 DEF HoldsKey
<1>11. QED
  BY <1>1, <1>8, <1>9, <1>10, StepOfOne DEF SkipKey, managerVars, storeVars
-----------------------------------------------------------------------------
\* The steps after the upstream's reply.
LEMMA RefusedStep ==
  ASSUME LoopInv, NEW r \in Requests, UpstreamRefuses(r)
  PROVE  LoopInv'
<1>1. /\ req \in [Requests -> RequestState] /\ req[r] \in RequestState
      /\ counters \in [CounterId -> Nat]
      /\ req[r].pc = "send" /\ req[r].key \in Keys
  BY DEF LoopInv, TypeOK, ManagerTypeOK, StoreTypeOK, HoldsKey, UpstreamRefuses,
         At
<1>2. PICK reply \in Replies :
        req' = [req EXCEPT ![r] =
                  [req[r] EXCEPT !.pc = "report", !.reply = reply]]
  BY DEF UpstreamRefuses
<1> DEFINE s == [req[r] EXCEPT !.pc = "report", !.reply = reply]
<1>3. s \in RequestState /\ s.pc = "report" /\ s.key \in Keys
  BY <1>1 DEF RequestState
<1>4. req' = [req EXCEPT ![r] = s]
  BY <1>2
<1> HIDE DEF s
<1>5. /\ req' \in [Requests -> RequestState]
      /\ \A q \in Requests \ {r} : req'[q] = req[q]
      /\ req'[r].pc = "report" /\ req'[r].key \in Keys
  BY <1>1, <1>3, <1>4
<1>6. Walking(r)' /\ HoldsKey(r)'
  BY <1>5 DEF Walking, HoldsKey, At
<1>7. QED
  BY <1>1, <1>5, <1>6, StepOfOne DEF UpstreamRefuses, managerVars, storeVars

\* The end of a sleep keeps the invariant.
LEMMA WakeStep ==
  ASSUME LoopInv, NEW r \in Requests, Wake(r)
  PROVE  LoopInv'
<1> DEFINE l == LastFrom(req[r].reply)
           s == [req[r] EXCEPT !.pc = "route", !.last = l, !.reply = NoReply]
<1>1. /\ req \in [Requests -> RequestState] /\ req[r] \in RequestState
      /\ counters \in [CounterId -> Nat] /\ req[r].key = NoKey
  BY DEF LoopInv, TypeOK, ManagerTypeOK, StoreTypeOK, HoldsKey, Wake, At
<1>2. l \in {"serverError", "clientError"}
  BY DEF LastFrom
<1>3. req' = [req EXCEPT ![r] = s]
  BY DEF Wake
<1> HIDE DEF l
<1>4. s \in RequestState /\ s.pc = "route" /\ s.key = NoKey
  BY <1>1, <1>2 DEF RequestState
<1> HIDE DEF s
<1>5. /\ req' \in [Requests -> RequestState]
      /\ \A q \in Requests \ {r} : req'[q] = req[q]
      /\ req'[r].pc = "route" /\ req'[r].key = NoKey
  BY <1>1, <1>3, <1>4
<1>6. Walking(r)' /\ HoldsKey(r)'
  BY <1>5 DEF Walking, HoldsKey, At
<1>7. QED
  BY <1>1, <1>5, <1>6, StepOfOne DEF Wake, managerVars, storeVars

\* A recorded failure is counted, never unblocks, and leaves a key in rotation
\* only below the threshold.
LEMMA RecordFailureType ==
  ASSUME NEW x \in KeyState, NEW t \in BOOLEAN, NEW m \in Nat,
         NEW s, s = RecordFailure(x, t, m)
  PROVE  /\ s \in KeyState
         /\ s.failures = x.failures + 1
         /\ x.blocked => s.blocked
         /\ ~s.blocked => ~t /\ s.failures < m
<1>1. x.failures \in Nat
  BY DEF KeyState
<1>2. PICK n \in Nat : n = x.failures + 1
  BY <1>1
<1>3. PICK b \in BOOLEAN : b = (x.blocked \/ t \/ x.failures + 1 >= m)
  BY Zenon
<1>4. s = [x EXCEPT !.failures = n, !.blocked = b]
  BY <1>2, <1>3, Zenon DEF RecordFailure
<1>5. s \in KeyState /\ s.blocked = b /\ s.failures = n
  BY <1>4 DEF KeyState
<1>6. ~(x.failures + 1 >= m) => n < m
  BY <1>1, <1>2
<1>7. QED
  BY <1>2, <1>3, <1>5, <1>6, Zenon

\* What recording a failure or a rate limit leaves of the store.
LEMMA StoreStep ==
  ASSUME TypeOK, NEW k \in Keys, NEW t \in BOOLEAN,
         \/ k \in DOMAIN keyStates /\ UpdateFailureState(k, t, maxFailures)
         \/ SetKeyRateLimited(k)
  PROVE  /\ StoreTypeOK'
         /\ DOMAIN keyStates' = DOMAIN keyStates
         /\ \A j \in DOMAIN keyStates :
              /\ j # k => keyStates'[j] = keyStates[j]
              /\ keyStates[j].blocked => keyStates'[j].blocked
<1>1. /\ keyStates \in [DOMAIN keyStates -> KeyState]
      /\ DOMAIN keyStates \subseteq Keys
      /\ counters \in [CounterId -> Nat]
  BY DEF TypeOK, ManagerTypeOK, StoreTypeOK
<1>2. CASE k \in DOMAIN keyStates /\ UpdateFailureState(k, t, maxFailures)
  <2> DEFINE s == RecordFailure(keyStates[k], t, maxFailures)
  <2>1. keyStates[k] \in KeyState /\ maxFailures \in Nat
    BY <1>1, <1>2 DEF TypeOK, ManagerTypeOK
  <2>2. s \in KeyState /\ (keyStates[k].blocked => s.blocked)
    BY <2>1, RecordFailureType, Zenon
  <2>3. keyStates' = [keyStates EXCEPT ![k] = s] /\ counters' = counters
    BY <1>2 DEF UpdateFailureState
  <2> HIDE DEF s
  <2>4. QED
    BY <1>1, <1>2, <2>2, <2>3 DEF StoreTypeOK
<1>3. CASE SetKeyRateLimited(k) /\ k \in DOMAIN keyStates
  <2> DEFINE s == [keyStates[k] EXCEPT !.blocked = TRUE]
  <2>1. keyStates[k] \in KeyState
    BY <1>1, <1>3
  <2>2. s \in KeyState /\ s.blocked
    BY <2>1 DEF KeyState
  <2>3. keyStates' = [keyStates EXCEPT ![k] = s] /\ counters' = counters
    BY <1>3 DEF SetKeyRateLimited
  <2> HIDE DEF s
  <2>4. QED
    BY <1>1, <1>3, <2>2, <2>3 DEF StoreTypeOK
<1>4. CASE SetKeyRateLimited(k) /\ k \notin DOMAIN keyStates
  BY <1>1, <1>4 DEF SetKeyRateLimited, StoreTypeOK
<1>5. QED
  BY <1>2, <1>3, <1>4

\* Every kind of report keeps the invariant.
LEMMA ReportStep ==
  ASSUME LoopInv, NEW r \in Requests, ReportFailure(r) \/ ReportRateLimit(r)
  PROVE  LoopInv'
<1> DEFINE l == LastFrom(req[r].reply)
           t == Process(req[r].reply) = BlockKeyAndRetry
           s == IF ReportRateLimit(r)
                THEN [req[r] EXCEPT !.pc = "sleep", !.key = NoKey]
                ELSE [req[r] EXCEPT !.pc = "route", !.key = NoKey, !.last = l,
                                    !.reply = NoReply]
<1>1. /\ req \in [Requests -> RequestState] /\ req[r] \in RequestState
      /\ req[r].key \in Keys /\ WriteLockFree
  BY DEF LoopInv, TypeOK, HoldsKey, ReportFailure, ReportRateLimit, At
<1>2. l \in {"serverError", "clientError"} /\ t \in BOOLEAN
  BY DEF LastFrom
<1>3. req' = [req EXCEPT ![r] = s]
  BY DEF ReportFailure, ReportRateLimit
<1> HIDE DEF l
<1>4. s \in RequestState /\ s.pc \in {"route", "sleep"} /\ s.key = NoKey
  BY <1>1, <1>2 DEF RequestState
<1> HIDE DEF s
<1>5. /\ req' \in [Requests -> RequestState]
      /\ \A q \in Requests \ {r} : req'[q] = req[q]
      /\ req'[r].pc \in {"route", "sleep"} /\ req'[r].key = NoKey
  BY <1>1, <1>3, <1>4
<1>6. StoreTypeOK' /\ DOMAIN keyStates' = DOMAIN keyStates
  <2>1. \/ /\ req[r].key \in DOMAIN keyStates
           /\ UpdateFailureState(req[r].key, t, maxFailures)
        \/ SetKeyRateLimited(req[r].key)
    BY DEF ReportFailure, ReportRateLimit
  <2>2. QED
    BY <1>1, <1>2, <2>1, StoreStep DEF LoopInv
<1>7. TypeOK'
  BY <1>5, <1>6 DEF LoopInv, TypeOK, ManagerTypeOK, ReportFailure, ReportRateLimit
<1>8. HoldsKey(r)'
  BY <1>5 DEF HoldsKey
<1>9. QED
  BY <1>1, <1>5, <1>7, <1>8, WriteStep

\* A key manager made from a configuration is well formed.
LEMMA FreshManager ==
  ASSUME NEW cfg \in Configs
  PROVE  LET info == BuildKeyInfoMap(cfg)
             states == FreshKeyStates(info)
         IN  /\ info \in [DOMAIN info -> Groups]
             /\ DOMAIN states = DOMAIN info /\ DOMAIN states \subseteq Keys
             /\ states \in [DOMAIN states -> KeyState]
             /\ \A k \in DOMAIN states : ~states[k].blocked /\ states[k].failures = 0
             /\ FreshCounters \in [CounterId -> Nat]
             /\ cfg.maxFailures \in Nat
<1> DEFINE info == BuildKeyInfoMap(cfg)
           states == FreshKeyStates(info)
<1>1. cfg \in Config
  BY ConfigsAssumption
<1>2. ConfiguredKeys(cfg) \subseteq Keys /\ info \in [ConfiguredKeys(cfg) -> Groups]
  BY <1>1, BuildKeyInfoMapType
<1>3. cfg.maxFailures \in Nat
  BY <1>1 DEF Config
<1> HIDE DEF info
<1>4. /\ DOMAIN states = DOMAIN info
      /\ \A k \in DOMAIN info :
           states[k] = [group |-> info[k], blocked |-> FALSE, failures |-> 0]
  BY DEF FreshKeyStates
<1>5. ASSUME NEW k \in DOMAIN info
      PROVE  /\ states[k] \in KeyState
             /\ ~states[k].blocked /\ states[k].failures = 0
  <2>1. info[k] \in Groups
    BY <1>2
  <2>2. states[k] = [group |-> info[k], blocked |-> FALSE, failures |-> 0]
    BY <1>4
  <2> HIDE DEF states
  <2>3. QED
    BY <2>1, <2>2 DEF KeyState
<1>6. states = [k \in DOMAIN states |-> states[k]]
  BY DEF FreshKeyStates
<1>7. FreshCounters \in [CounterId -> Nat]
  BY DEF FreshCounters
<1> HIDE DEF states
<1>8. states \in [DOMAIN states -> KeyState]
  BY <1>4, <1>5, <1>6
<1>9. QED
  BY <1>2, <1>3, <1>4, <1>5, <1>7, <1>8 DEF states, info

\* A reload keeps the invariant.
LEMMA ReloadStep ==
  ASSUME LoopInv, NEW cfg \in Configs, Reload(cfg)
  PROVE  LoopInv'
<1>1. StoreTypeOK' /\ ManagerTypeOK'
  BY FreshManager DEF Reload, ReloadKeyManager, StoreTypeOK, ManagerTypeOK
<1>2. TypeOK'
  BY <1>1, MaxReloadsAssumption DEF LoopInv, TypeOK, Reload
<1>3. ASSUME NEW r \in Requests PROVE Walking(r)' /\ HoldsKey(r)'
  BY DEF LoopInv, Reload, WriteLockFree, Readers, Walking, HoldsKey, At
<1>4. QED
  BY <1>2, <1>3 DEF LoopInv
-----------------------------------------------------------------------------
\* The initial states satisfy the invariant.
LEMMA InitLoop ==
  ASSUME Init
  PROVE  LoopInv
<1>1. ManagerTypeOK
  BY FreshManager DEF Init, NewKeyManager, ManagerTypeOK, StoreTypeOK
<1>2. /\ req \in [Requests -> RequestState]
      /\ \A r \in Requests : req[r].pc = "idle" /\ req[r].key = NoKey
  BY DEF Init, RequestState, Answers
<1>3. TypeOK
  BY <1>1, <1>2, MaxReloadsAssumption DEF Init, TypeOK
<1>4. QED
  BY <1>2, <1>3 DEF LoopInv, Walking, HoldsKey, At

\* Every step of a request's own task, and its cancellation.
LEMMA ProceedStep ==
  ASSUME LoopInv, NEW r \in Requests, Proceed(r) \/ Cancel(r)
  PROVE  LoopInv'
<1>1. ExhaustedAnswer(r) \in Answers
  BY ExhaustedAnswerType DEF LoopInv, Answers
<1>2. CASE Route(r)
  BY <1>2, RouteStep
<1>3. CASE NothingToSelect(r) \/ GiveUp(r)
  BY <1>1, <1>3, AnswerStep DEF NothingToSelect, GiveUp
<1>4. CASE DrawIndex(r)
  BY <1>4, DrawStep
<1>5. CASE TakeKey(r)
  BY <1>5, TakeStep
<1>6. CASE SkipKey(r)
  BY <1>6, SkipStep
<1>7. CASE UpstreamError(r) \/ UpstreamAnswers(r) \/ ReportRejected(r) \/ Cancel(r)
  <2>1. {"error", "upstream", "rejected", "cancelled"} \subseteq Answers
    BY DEF Answers
  <2>2. QED
    BY <1>7, <2>1, AnswerStep
       DEF UpstreamError, UpstreamAnswers, ReportRejected, Cancel
<1>8. CASE UpstreamRefuses(r)
  BY <1>8, RefusedStep
<1>9. CASE ReportFailure(r) \/ ReportRateLimit(r)
  BY <1>9, ReportStep
<1>10. CASE Wake(r)
  BY <1>10, WakeStep
<1>11. QED
  BY <1>2, <1>3, <1>4, <1>5, <1>6, <1>7, <1>8, <1>9, <1>10 DEF Proceed

\* Every step keeps the invariant.
LEMMA LoopStep ==
  ASSUME LoopInv, [Next]_vars
  PROVE  LoopInv'
<1>1. CASE UNCHANGED vars
  BY <1>1 DEF vars, managerVars, storeVars, LoopInv, TypeOK, ManagerTypeOK,
     StoreTypeOK, Walking, HoldsKey, At, CandidateKeys, SeenAvailable
<1>2. ASSUME NEW r \in Requests, Arrive(r) PROVE LoopInv'
  BY <1>2, RouteStep
<1>3. ASSUME NEW r \in Requests, Proceed(r) \/ Cancel(r) PROVE LoopInv'
  BY <1>3, ProceedStep
<1>4. ASSUME NEW cfg \in Configs, Reload(cfg) PROVE LoopInv'
  BY <1>4, ReloadStep
<1>5. QED
  BY <1>1, <1>2, <1>3, <1>4 DEF Next, Terminated

\* The invariant the other theorems rest on: the walk round the ring and the
\* custody of keys, for any number of requests and reloads.
THEOREM LoopInvariant == Spec => []LoopInv
<1>1. Init => LoopInv
  BY InitLoop
<1>2. LoopInv /\ [Next]_vars => LoopInv'
  BY LoopStep
<1>3. QED
  BY <1>1, <1>2, PTL DEF Spec

\* The store and the key map always describe the same keys, and the locals of
\* every request stay within their types.
THEOREM ProxyLoopTypeCorrect == Spec => []TypeOK
<1>1. LoopInv => TypeOK
  BY DEF LoopInv
<1>2. QED
  BY <1>1, LoopInvariant, PTL
-----------------------------------------------------------------------------
\* When the walk is given up, it has met every key of the group, blocked.
LEMMA GivingUpMeansBlocked ==
  ASSUME LoopInv, NEW r \in Requests, GiveUp(r)
  PROVE  \A k \in CandidateKeys(req[r].group) : keyStates[k].blocked
<1> DEFINE C == req[r].cands
           n == Cardinality(C)
           a == req[r].start
<1>1. C \in SUBSET Keys /\ a \in Nat /\ req[r].probe \in Nat
  BY DEF LoopInv, TypeOK, RequestState
<1>2. /\ C = CandidateKeys(req[r].group)
      /\ \A i \in 0..(req[r].probe - 1) : ~SeenAvailable(CandidateAt(C, a + i))
  BY DEF GiveUp, LoopInv, Walking
<1>3. ~SeenAvailable(CandidateAt(C, a + req[r].probe)) /\ req[r].probe + 1 = n
  BY DEF GiveUp, Probed, LastProbe
<1>4. ASSUME NEW k \in C PROVE keyStates[k].blocked
  <2>1. PICK i \in 0..(n - 1) : CandidateAt(C, a + i) = k
    BY <1>1, WalkMeetsAll
  <2>2. i \in 0..(req[r].probe - 1) \/ i = req[r].probe
    BY <1>1, <1>3
  <2>3. ~SeenAvailable(k)
    BY <1>2, <1>3, <2>1, <2>2
  <2>4. QED
    BY <2>3 DEF SeenAvailable
<1>5. QED
  BY <1>2, <1>4

\* Only two steps tell a client that its keys are exhausted.
LEMMA WhoSaysExhausted ==
  ASSUME LoopInv, [Next]_vars, NEW r \in Requests, req[r].answer = "none",
         req'[r].answer \in {"noKeys", "badGateway", "lastResponse"}
  PROVE  NothingToSelect(r) \/ GiveUp(r)
<1>1. req \in [Requests -> RequestState] /\ req[r] \in RequestState
  BY DEF LoopInv, TypeOK
<1>2. req'[r] # req[r]
  OBVIOUS
<1>3. PICK q \in Requests : Arrive(q) \/ Proceed(q) \/ Cancel(q)
  BY <1>2 DEF Next, Reload, Terminated, vars
<1>4. PICK s : req' = [req EXCEPT ![q] = s]
  BY <1>3 DEF Arrive, Proceed, Cancel, Route, NothingToSelect, DrawIndex, TakeKey,
     SkipKey, GiveUp, UpstreamError, UpstreamAnswers, UpstreamRefuses,
     ReportFailure, ReportRejected, ReportRateLimit, Wake, Answer
<1>5. q = r
  BY <1>1, <1>2, <1>4
<1>6. ~(Arrive(r) \/ Route(r) \/ DrawIndex(r) \/ TakeKey(r) \/ SkipKey(r))
  <2>1. ~Arrive(r)
    BY <1>1 DEF Arrive, RequestState
  <2>2. ~Route(r)
    BY <1>1 DEF Route, RequestState
  <2>3. ~DrawIndex(r)
    BY <1>1 DEF DrawIndex, RequestState
  <2>4. ~TakeKey(r)
    BY <1>1 DEF TakeKey, RequestState
  <2>5. ~SkipKey(r)
    BY <1>1 DEF SkipKey, RequestState
  <2>6. QED
    BY <2>1, <2>2, <2>3, <2>4, <2>5
<1>7. ~UpstreamRefuses(r) /\ ~ReportFailure(r) /\ ~ReportRateLimit(r) /\ ~Wake(r)
  <2>1. ~UpstreamRefuses(r)
    BY <1>1 DEF UpstreamRefuses, RequestState
  <2>2. ~ReportRateLimit(r)
    BY <1>1 DEF ReportRateLimit, RequestState
  <2>3. ASSUME NEW l,
               \/ req'[r] = [req[r] EXCEPT !.pc = "route", !.key = NoKey,
                                           !.last = l, !.reply = NoReply]
               \/ req'[r] = [req[r] EXCEPT !.pc = "route", !.last = l,
                                           !.reply = NoReply]
        PROVE  FALSE
    BY <1>1, <2>3 DEF RequestState
  <2>4. ~ReportFailure(r) /\ ~Wake(r)
    BY <1>1, <2>3 DEF ReportFailure, Wake
  <2>5. QED
    BY <2>1, <2>2, <2>4
<1>8. ~(UpstreamError(r) \/ UpstreamAnswers(r) \/ ReportRejected(r) \/ Cancel(r))
  <2>1. ASSUME NEW a, Answer(r, a) PROVE req'[r].answer = a
    BY <1>1, <2>1 DEF Answer, RequestState
  <2>2. QED
    BY <2>1 DEF UpstreamError, UpstreamAnswers, ReportRejected, Cancel
<1>9. QED
  BY <1>3, <1>5, <1>6, <1>7, <1>8 DEF Proceed

\* A client hears that the keys are exhausted only when every key of its group
\* is blocked: the walk misses none, wherever the shared counter starts it and
\* whatever other requests and reloads do meanwhile.
THEOREM ExhaustionReal == Spec => ExhaustionIsReal
<1>1. ASSUME LoopInv, [Next]_vars, NEW r \in Requests, req[r].answer = "none",
             req'[r].answer \in {"noKeys", "badGateway", "lastResponse"}
      PROVE  \A k \in CandidateKeys(req[r].group) : keyStates[k].blocked
  BY <1>1, WhoSaysExhausted, GivingUpMeansBlocked DEF NothingToSelect
<1>2. LoopInv /\ [Next]_vars =>
        [\A r \in Requests :
           (/\ req[r].answer = "none"
            /\ req'[r].answer \in {"noKeys", "badGateway", "lastResponse"})
           => \A k \in CandidateKeys(req[r].group) : keyStates[k].blocked]_vars
  BY <1>1
<1>3. QED
  BY <1>2, LoopInvariant, PTL DEF Spec, ExhaustionIsReal
-----------------------------------------------------------------------------
\* The pool's view of the store and of the requests.
Usable == {k \in DOMAIN keyStates : ~keyStates[k].blocked}
InUse  == [r \in Requests |-> req[r].key]

\* A step that gives one request the key k, or takes its key away.
LEMMA KeyChange ==
  ASSUME req \in [Requests -> RequestState], NEW r \in Requests, NEW s,
         req' = [req EXCEPT ![r] = s]
  PROVE  InUse' = [InUse EXCEPT ![r] = s.key]
BY DEF InUse

\* A request that lets go of its key, if it has one, without a word about it.
LEMMA QuietStep ==
  ASSUME LoopInv, NEW r \in Requests, NEW s, req' = [req EXCEPT ![r] = s],
         s.key \in {req[r].key, NoKey}, UNCHANGED keyStates
  PROVE  UNCHANGED <<Usable, InUse>> \/ Pool!LetGo(r)
<1>1. req \in [Requests -> RequestState]
  BY DEF LoopInv, TypeOK
<1>2. InUse' = [InUse EXCEPT ![r] = s.key] /\ InUse[r] = req[r].key
  BY <1>1, KeyChange DEF InUse
<1>3. Usable' = Usable
  BY DEF Usable
<1>4. CASE s.key = req[r].key
  BY <1>2, <1>3, <1>4 DEF InUse
<1>5. CASE s.key = NoKey /\ s.key # req[r].key
  BY <1>2, <1>3, <1>5 DEF Pool!LetGo, InUse, Usable
<1>6. QED
  BY <1>4, <1>5

\* Handing out a key is a check-out of a usable one.
LEMMA TakeIsCheckOut ==
  ASSUME LoopInv, NEW r \in Requests, TakeKey(r)
  PROVE  \E k \in Keys : Pool!CheckOut(r, k)
<1>1. /\ req \in [Requests -> RequestState] /\ req[r] \in RequestState
      /\ req[r].key = NoKey
  BY DEF LoopInv, TypeOK, HoldsKey, TakeKey, At
<1>2. PICK k \in Keys : k = Probed(r) /\ k \in Usable
  BY ProbedIsCandidate DEF TakeKey, SeenAvailable, Usable
<1> DEFINE s == [req[r] EXCEPT !.pc = "send", !.key = k, !.cands = {},
                               !.start = 0, !.probe = 0]
<1>3. req' = [req EXCEPT ![r] = s]
  BY <1>2 DEF TakeKey
<1>4. s.key = k
  BY <1>1 DEF RequestState
<1> HIDE DEF s
<1>5. InUse' = [InUse EXCEPT ![r] = k] /\ InUse[r] = NoKey
  BY <1>1, <1>3, <1>4, KeyChange DEF InUse
<1>6. Usable' = Usable
  BY DEF TakeKey, managerVars, storeVars, Usable
<1>7. QED
  BY <1>2, <1>5, <1>6 DEF Pool!CheckOut, InUse, Usable

\* A report lets go of the key, and retires at most that key.
LEMMA ReportIsLetGo ==
  ASSUME LoopInv, NEW r \in Requests, ReportFailure(r) \/ ReportRateLimit(r)
  PROVE  Pool!LetGo(r)
<1> DEFINE k == req[r].key
           t == Process(req[r].reply) = BlockKeyAndRetry
<1>1. /\ req \in [Requests -> RequestState] /\ req[r] \in RequestState
      /\ k \in Keys
  BY DEF LoopInv, TypeOK, HoldsKey, ReportFailure, ReportRateLimit, At
<1>2. k # NoKey
  BY <1>1, NoKeyAssumption
<1>3. /\ DOMAIN keyStates' = DOMAIN keyStates
      /\ \A j \in DOMAIN keyStates :
           /\ j # k => keyStates'[j] = keyStates[j]
           /\ keyStates[j].blocked => keyStates'[j].blocked
  <2>1. \/ k \in DOMAIN keyStates /\ UpdateFailureState(k, t, maxFailures)
        \/ SetKeyRateLimited(k)
    BY DEF ReportFailure, ReportRateLimit
  <2>2. QED
    BY <1>1, <2>1, StoreStep DEF LoopInv
<1>4. Usable' \in {Usable, Usable \ {k}}
  BY <1>3 DEF Usable
<1>5. InUse' = [InUse EXCEPT ![r] = NoKey] /\ InUse[r] = k
  <2>1. CASE ReportFailure(r)
    <3> DEFINE s == [req[r] EXCEPT !.pc = "route", !.key = NoKey,
                                   !.last = LastFrom(req[r].reply),
                                   !.reply = NoReply]
    <3>1. req' = [req EXCEPT ![r] = s]
      BY <2>1 DEF ReportFailure
    <3>2. s.key = NoKey
      BY <1>1 DEF RequestState
    <3> HIDE DEF s
    <3>3. QED
      BY <1>1, <3>1, <3>2, KeyChange DEF InUse
  <2>2. CASE ReportRateLimit(r)
    <3> DEFINE s == [req[r] EXCEPT !.pc = "sleep", !.key = NoKey]
    <3>1. req' = [req EXCEPT ![r] = s]
      BY <2>2 DEF ReportRateLimit
    <3>2. s.key = NoKey
      BY <1>1 DEF RequestState
    <3> HIDE DEF s
    <3>3. QED
      BY <1>1, <3>1, <3>2, KeyChange DEF InUse
  <2>3. QED
    BY <2>1, <2>2
<1>6. QED
  BY <1>2, <1>4, <1>5 DEF Pool!LetGo, InUse, Usable

\* Every other step of a request leaves the pool alone or lets go quietly.
LEMMA OtherStep ==
  ASSUME LoopInv, NEW r \in Requests,
         \/ Arrive(r) \/ Route(r) \/ DrawIndex(r) \/ SkipKey(r)
         \/ UpstreamRefuses(r) \/ Wake(r)
         \/ \E a : Answer(r, a) /\ UNCHANGED keyStates
  PROVE  UNCHANGED <<Usable, InUse>> \/ Pool!LetGo(r)
<1>1. req[r] \in RequestState
  BY DEF LoopInv, TypeOK
<1>2. CASE \E a : Answer(r, a) /\ UNCHANGED keyStates
  <2>1. PICK a : Answer(r, a) /\ UNCHANGED keyStates
    BY <1>2
  <2> DEFINE s == [req[r] EXCEPT !.pc = "done", !.answer = a, !.cands = {},
                                 !.start = 0, !.probe = 0, !.key = NoKey,
                                 !.reply = NoReply]
  <2>2. req' = [req EXCEPT ![r] = s]
    BY <2>1 DEF Answer
  <2>3. s.key = NoKey
    BY <1>1 DEF RequestState
  <2> HIDE DEF s
  <2>4. QED
    BY <2>1, <2>2, <2>3, QuietStep
<1>3. CASE Arrive(r) \/ Route(r) \/ DrawIndex(r) \/ SkipKey(r)
  <2>1. UNCHANGED keyStates
    BY <1>3 DEF Arrive, Route, DrawIndex, SkipKey, NextRotationIndex, managerVars,
       storeVars
  <2>2. PICK s : req' = [req EXCEPT ![r] = s] /\ s.key = req[r].key
    BY <1>1, <1>3 DEF Arrive, Route, DrawIndex, SkipKey, RequestState
  <2>3. QED
    BY <2>1, <2>2, QuietStep
<1>4. CASE UpstreamRefuses(r) \/ Wake(r)
  <2>1. UNCHANGED keyStates
    BY <1>4 DEF UpstreamRefuses, Wake, managerVars, storeVars
  <2>2. PICK s : req' = [req EXCEPT ![r] = s] /\ s.key = req[r].key
    BY <1>1, <1>4 DEF UpstreamRefuses, Wake, RequestState
  <2>3. QED
    BY <2>1, <2>2, QuietStep
<1>5. QED
  BY <1>2, <1>3, <1>4

\* Every step of the loop is a step of the pool, or a stutter.
LEMMA PoolStep ==
  ASSUME LoopInv, LoopInv', [Next]_vars
  PROVE  Pool!Next \/ UNCHANGED <<Usable, InUse>>
<1>1. CASE UNCHANGED vars
  BY <1>1 DEF vars, managerVars, storeVars, Usable, InUse
<1>2. ASSUME NEW r \in Requests, Arrive(r) \/ Proceed(r) \/ Cancel(r)
      PROVE  Pool!Next \/ UNCHANGED <<Usable, InUse>>
  <2>1. CASE TakeKey(r)
    BY <2>1, TakeIsCheckOut DEF Pool!Next
  <2>2. CASE ReportFailure(r) \/ ReportRateLimit(r)
    BY <2>2, ReportIsLetGo DEF Pool!Next
  <2>3. CASE \/ Arrive(r) \/ Route(r) \/ DrawIndex(r) \/ SkipKey(r)
             \/ UpstreamRefuses(r) \/ Wake(r)
             \/ \E a : Answer(r, a) /\ UNCHANGED keyStates
    BY <2>3, OtherStep DEF Pool!Next
  <2>4. CASE \/ NothingToSelect(r) \/ GiveUp(r) \/ UpstreamError(r)
             \/ UpstreamAnswers(r) \/ ReportRejected(r) \/ Cancel(r)
    <3>1. (\E a : Answer(r, a)) /\ UNCHANGED keyStates
      BY <2>4 DEF NothingToSelect, GiveUp, UpstreamError, UpstreamAnswers,
         ReportRejected, Cancel, managerVars, storeVars
    <3>2. QED
      BY <2>3, <3>1
  <2>5. QED
    BY <1>2, <2>1, <2>2, <2>3, <2>4, Zenon DEF Proceed
<1>3. ASSUME NEW cfg \in Configs, Reload(cfg) PROVE Pool!Next
  <2>1. Usable' \subseteq Keys
    BY DEF LoopInv, TypeOK, ManagerTypeOK, StoreTypeOK, Usable
  <2>2. InUse' = InUse
    BY <1>3 DEF Reload, InUse
  <2>3. QED
    BY <2>1, <2>2 DEF Pool!Next, Pool!Reload, Usable, InUse
<1>4. QED
  BY <1>1, <1>2, <1>3 DEF Next, Terminated

\* The proxy implements the pool of usable keys: no request is ever given a key
\* that is blocked at that moment, a key leaves the rotation only on the word of
\* a request that was using it, and only a reload brings one back.
THEOREM ImplementsPool == Spec => ImplementsKeyPool
<1>1. Init => Pool!Init
  <2>1. SUFFICES ASSUME Init PROVE Pool!Init
    OBVIOUS
  <2>2. LoopInv
    BY <2>1, InitLoop
  <2>3. Usable \subseteq Keys
    BY <2>2 DEF LoopInv, TypeOK, ManagerTypeOK, StoreTypeOK, Usable
  <2>4. InUse = [r \in Requests |-> NoKey]
    BY <2>1 DEF Init, InUse
  <2>5. QED
    BY <2>3, <2>4 DEF Pool!Init, Usable, InUse
<1>2. LoopInv /\ LoopInv' /\ [Next]_vars => [Pool!Next]_<<Usable, InUse>>
  BY PoolStep
<1>3. QED
  BY <1>1, <1>2, LoopInvariant, PTL DEF Spec, ImplementsKeyPool, Pool!Spec, Usable,
     InUse
-----------------------------------------------------------------------------
InRotation(k) == k \in DOMAIN keyStates /\ ~keyStates[k].blocked
Failures(k)   == keyStates[k].failures

\* The request was handed the key and has not had it counted, or never will.
Owes(r, k) ==
  \/ req[r].pc \in {"send", "report"} /\ req[r].key = k
  \/ req[r].pc = "done"

Charge(r, k) == IF Owes(r, k) THEN 1 ELSE 0

\* While a key is in rotation every hand-out of it to a request has cost it a
\* failure, save one the request still owes; and it has failures to spare.
Accounted(r, k) ==
  InRotation(k) => /\ Failures(k) < Limit
                   /\ tries[r][k] <= Failures(k) + Charge(r, k)

RetryInv ==
  /\ LoopInv
  /\ TriesTypeOK
  /\ AttemptsBounded
  /\ \A r \in Requests, k \in Keys : Accounted(r, k)

\* The numbers of the invariant.
LEMMA Numbers ==
  ASSUME TypeOK, TriesTypeOK
  PROVE  /\ Limit \in Nat \ {0} /\ maxFailures <= Limit
         /\ \A r \in Requests, k \in Keys :
              tries[r][k] \in Nat /\ Charge(r, k) \in {0, 1}
         /\ \A k \in DOMAIN keyStates : Failures(k) \in Nat
<1>1. maxFailures \in Nat
  BY DEF TypeOK, ManagerTypeOK
<1>2. Limit \in Nat \ {0} /\ maxFailures <= Limit
  BY <1>1 DEF Limit
<1>3. ASSUME NEW k \in DOMAIN keyStates PROVE Failures(k) \in Nat
  BY <1>3 DEF TypeOK, ManagerTypeOK, StoreTypeOK, KeyState, Failures
<1>4. ASSUME NEW r \in Requests, NEW k \in Keys
      PROVE  tries[r][k] \in Nat /\ Charge(r, k) \in {0, 1}
  BY DEF TriesTypeOK, Charge
<1>5. QED
  BY <1>2, <1>3, <1>4

\* A step that hands out no key and reloads nothing leaves the counts alone.
LEMMA NothingHandedOut ==
  ASSUME TriesTypeOK, CountTries, reloads' = reloads,
         \A r \in Requests, k \in Keys : ~HandsOut(r, k)
  PROVE  tries' = tries
<1>1. tries' = [r \in Requests |-> [k \in Keys |-> tries[r][k]]]
  BY DEF CountTries
<1>2. \A r \in Requests : tries[r] \in [Keys -> Nat]
  BY DEF TriesTypeOK
<1>3. \A r \in Requests : tries[r] = [k \in Keys |-> tries[r][k]]
  BY <1>2
<1>4. tries = [r \in Requests |-> tries[r]]
  BY DEF TriesTypeOK
<1>5. QED
  BY <1>1, <1>3, <1>4
-----------------------------------------------------------------------------
\* Where a step of one request leaves it, and every other request.
QuietMove(r) ==
  \/ Arrive(r) \/ Route(r) \/ DrawIndex(r) \/ SkipKey(r)
  \/ UpstreamRefuses(r) \/ Wake(r)
  \/ NothingToSelect(r) \/ GiveUp(r) \/ UpstreamError(r) \/ UpstreamAnswers(r)
  \/ ReportRejected(r) \/ Cancel(r)

\* A step of one request leaves the others as they are.
LEMMA OthersStay ==
  ASSUME LoopInv, NEW r \in Requests, Arrive(r) \/ Proceed(r) \/ Cancel(r),
         NEW q \in Requests, q # r
  PROVE  req'[q] = req[q]
<1>1. req \in [Requests -> RequestState]
  BY DEF LoopInv, TypeOK
<1>2. PICK s : req' = [req EXCEPT ![r] = s]
  BY DEF Arrive, Proceed, Cancel, Route, NothingToSelect, DrawIndex, TakeKey,
     SkipKey, GiveUp, UpstreamError, UpstreamAnswers, UpstreamRefuses,
     ReportFailure, ReportRejected, ReportRateLimit, Wake, Answer
<1>3. QED
  BY <1>1, <1>2

\* After a step that costs no key anything a request sends no new attempt, and
\* what it owed it still owes.
LEMMA QuietPlace ==
  ASSUME LoopInv, NEW r \in Requests, QuietMove(r)
  PROVE  req'[r].pc # "send" /\ \A k \in Keys : Owes(r, k) => Owes(r, k)'
<1>1. req \in [Requests -> RequestState] /\ req[r] \in RequestState
  BY DEF LoopInv, TypeOK
<1>2. CASE Arrive(r) \/ Route(r) \/ DrawIndex(r) \/ SkipKey(r)
  BY <1>1, <1>2 DEF Arrive, Route, DrawIndex, SkipKey, At, RequestState, Owes
<1>3. CASE UpstreamRefuses(r) \/ Wake(r)
  <2>1. CASE UpstreamRefuses(r)
    BY <1>1, <2>1 DEF UpstreamRefuses, RequestState, Owes, At
  <2>2. CASE Wake(r)
    BY <1>1, <2>2 DEF Wake, RequestState, Owes, At
  <2>3. QED
    BY <1>3, <2>1, <2>2
<1>4. CASE \/ NothingToSelect(r) \/ GiveUp(r) \/ UpstreamError(r)
           \/ UpstreamAnswers(r) \/ ReportRejected(r) \/ Cancel(r)
  <2>1. PICK a : Answer(r, a)
    BY <1>4 DEF NothingToSelect, GiveUp, UpstreamError, UpstreamAnswers,
       ReportRejected, Cancel
  <2>2. req'[r].pc = "done"
    BY <1>1, <2>1 DEF Answer, RequestState
  <2>3. QED
    BY <2>2 DEF Owes
<1>5. QED
  BY <1>2, <1>3, <1>4 DEF QuietMove

\* Such a step keeps the invariant.
LEMMA QuietKeepsRetryInv ==
  ASSUME RetryInv, LoopInv', NEW r \in Requests, QuietMove(r), CountTries
  PROVE  RetryInv'
<1>1. UNCHANGED <<keyStates, maxFailures, reloads>>
  BY DEF QuietMove, Arrive, Route, DrawIndex, SkipKey, UpstreamRefuses, Wake,
     NothingToSelect, GiveUp, UpstreamError, UpstreamAnswers, ReportRejected,
     Cancel, NextRotationIndex, managerVars, storeVars
<1>2. \A q \in Requests \ {r} : req'[q] = req[q]
  BY OthersStay DEF RetryInv, QuietMove, Proceed
<1>3. req'[r].pc # "send" /\ \A k \in Keys : Owes(r, k) => Owes(r, k)'
  BY QuietPlace DEF RetryInv
<1>4. \A q \in Requests, k \in Keys : ~HandsOut(q, k)
  BY <1>2, <1>3 DEF HandsOut, At
<1>5. tries' = tries
  BY <1>1, <1>4, NothingHandedOut DEF RetryInv
<1>6. ASSUME NEW q \in Requests, NEW k \in Keys PROVE Accounted(q, k)'
  <2>1. Owes(q, k) => Owes(q, k)'
    BY <1>2, <1>3 DEF Owes
  <2>2. Charge(q, k) <= Charge(q, k)'
    BY <2>1 DEF Charge
  <2>3. /\ InRotation(k)' = InRotation(k) /\ Failures(k)' = Failures(k)
        /\ Limit' = Limit
    BY <1>1 DEF InRotation, Failures, Limit
  <2>4. /\ tries[q][k] \in Nat /\ Charge(q, k) \in {0, 1}
        /\ Charge(q, k)' \in {0, 1}
        /\ InRotation(k) => Failures(k) \in Nat
    BY Numbers DEF RetryInv, LoopInv, InRotation, Charge
  <2>5. Accounted(q, k)
    BY DEF RetryInv
  <2>6. QED
    BY <1>5, <2>2, <2>3, <2>4, <2>5 DEF Accounted
<1>7. TriesTypeOK' /\ AttemptsBounded'
  BY <1>1, <1>5 DEF RetryInv, TriesTypeOK, AttemptsBounded, Limit
<1>8. QED
  BY <1>6, <1>7 DEF RetryInv
-----------------------------------------------------------------------------
\* A hand-out: the key is in rotation, the request owed nothing.
LEMMA TakeKeepsRetryInv ==
  ASSUME RetryInv, LoopInv', NEW r \in Requests, TakeKey(r), CountTries
  PROVE  RetryInv'
<1>1. /\ UNCHANGED <<keyStates, maxFailures, reloads>>
      /\ At(r, "probe")
  BY DEF TakeKey, managerVars, storeVars
<1>2. \A q \in Requests \ {r} : req'[q] = req[q]
  BY OthersStay DEF RetryInv, Proceed
<1>3. PICK a \in Keys : a = Probed(r) /\ InRotation(a)
  BY ProbedIsCandidate DEF RetryInv, TakeKey, SeenAvailable, InRotation
<1>4. req'[r].pc = "send" /\ req'[r].key = a
  <2>1. req \in [Requests -> RequestState] /\ req[r] \in RequestState
    BY DEF RetryInv, LoopInv, TypeOK
  <2>2. QED
    BY <1>3, <2>1 DEF TakeKey, RequestState
<1>5. \A q \in Requests, k \in Keys : HandsOut(q, k) <=> q = r /\ k = a
  BY <1>1, <1>2, <1>4 DEF HandsOut, At
<1>6. \A q \in Requests, k \in Keys :
        tries'[q][k] = IF q = r /\ k = a THEN tries[q][k] + 1 ELSE tries[q][k]
  BY <1>1, <1>5 DEF CountTries
<1>7. \A q \in Requests, k \in Keys :
        tries[q][k] \in Nat /\ Charge(q, k) \in {0, 1}
  BY Numbers DEF RetryInv, LoopInv
<1>8. TriesTypeOK'
  <2>1. tries' = [q \in Requests |-> [k \in Keys |-> tries'[q][k]]]
    BY <1>1 DEF CountTries
  <2>2. \A q \in Requests, k \in Keys : tries'[q][k] \in Nat
    BY <1>6, <1>7
  <2>3. QED
    BY <2>1, <2>2 DEF TriesTypeOK
<1>9. ~Owes(r, a) /\ Owes(r, a)'
  BY <1>1, <1>4 DEF Owes, At
<1>10. Limit \in Nat \ {0} /\ Limit' = Limit
  BY <1>1, Numbers DEF RetryInv, LoopInv, Limit
<1>11. tries[r][a] <= Failures(a) /\ Failures(a) < Limit /\ Failures(a) \in Nat
  <2>1. Accounted(r, a) /\ a \in DOMAIN keyStates
    BY <1>3 DEF RetryInv, InRotation
  <2>2. Charge(r, a) = 0
    BY <1>9 DEF Charge
  <2>3. Failures(a) \in Nat
    BY <2>1, Numbers DEF RetryInv, LoopInv
  <2>4. QED
    BY <1>3, <1>7, <2>1, <2>2, <2>3 DEF Accounted
<1>12. AttemptsBounded'
  BY <1>6, <1>7, <1>10, <1>11 DEF RetryInv, AttemptsBounded
<1>13. ASSUME NEW q \in Requests, NEW k \in Keys PROVE Accounted(q, k)'
  <2>1. /\ InRotation(k)' = InRotation(k) /\ Failures(k)' = Failures(k)
    BY <1>1 DEF InRotation, Failures
  <2>2. CASE q = r /\ k = a
    <3>1. Charge(q, k)' = 1
      BY <1>9, <2>2 DEF Charge
    <3>2. QED
      BY <1>6, <1>7, <1>10, <1>11, <2>1, <2>2, <3>1 DEF Accounted
  <2>3. CASE ~(q = r /\ k = a)
    <3>1. Owes(q, k)' = Owes(q, k)
      <4>1. CASE q = r
        BY <1>1, <1>4, <2>3, <4>1 DEF Owes, At
      <4>2. CASE q # r
        BY <1>2, <4>2 DEF Owes
      <4>3. QED
        BY <4>1, <4>2
    <3>2. Charge(q, k)' = Charge(q, k)
      BY <3>1 DEF Charge
    <3>3. Accounted(q, k) /\ tries'[q][k] = tries[q][k]
      BY <1>6, <2>3 DEF RetryInv
    <3>4. QED
      BY <1>10, <2>1, <3>2, <3>3 DEF Accounted
  <2>4. QED
    BY <2>2, <2>3
<1>14. QED
  BY <1>8, <1>12, <1>13 DEF RetryInv
-----------------------------------------------------------------------------
\* What a report does to the store, in the terms of the invariant.
LEMMA ReportEffect ==
  ASSUME LoopInv, NEW r \in Requests, ReportFailure(r) \/ ReportRateLimit(r)
  PROVE  \A k \in Keys : InRotation(k)' =>
           /\ InRotation(k)
           /\ IF k = req[r].key
              THEN Failures(k)' = Failures(k) + 1 /\ Failures(k)' < maxFailures
              ELSE Failures(k)' = Failures(k)
<1> DEFINE a == req[r].key
           t == Process(req[r].reply) = BlockKeyAndRetry
<1>1. a \in Keys /\ maxFailures \in Nat
  BY DEF LoopInv, TypeOK, ManagerTypeOK, HoldsKey, ReportFailure,
     ReportRateLimit, At
<1>2. \A k \in DOMAIN keyStates : keyStates[k] \in KeyState
  BY DEF LoopInv, TypeOK, ManagerTypeOK, StoreTypeOK
<1>3. CASE ReportFailure(r)
  <2> DEFINE x == keyStates[a]
             y == RecordFailure(x, t, maxFailures)
  <2>1. a \in DOMAIN keyStates /\ keyStates' = [keyStates EXCEPT ![a] = y]
    BY <1>3 DEF ReportFailure, UpdateFailureState
  <2>2. /\ y.failures = x.failures + 1
        /\ x.blocked => y.blocked
        /\ ~y.blocked => y.failures < maxFailures
    <3>1. x \in KeyState
      BY <1>2, <2>1
    <3>2. t \in BOOLEAN
      OBVIOUS
    <3> HIDE DEF x, t
    <3>3. QED
      BY <1>1, <3>1, <3>2, RecordFailureType, Zenon
  <2> HIDE DEF y
  <2>3. QED
    BY <2>1, <2>2 DEF InRotation, Failures
<1>4. CASE ReportRateLimit(r) /\ a \in DOMAIN keyStates
  <2>1. keyStates' = [keyStates EXCEPT ![a].blocked = TRUE]
    BY <1>4 DEF ReportRateLimit, SetKeyRateLimited
  <2>2. keyStates'[a].blocked
    BY <1>2, <1>4, <2>1 DEF KeyState
  <2>3. QED
    BY <1>4, <2>1, <2>2 DEF InRotation, Failures
<1>5. CASE ReportRateLimit(r) /\ a \notin DOMAIN keyStates
  BY <1>5 DEF ReportRateLimit, SetKeyRateLimited, InRotation, Failures
<1>6. QED
  BY <1>3, <1>4, <1>5

\* After a report no attempt is under way.
LEMMA ReportPlace ==
  ASSUME LoopInv, NEW r \in Requests, ReportFailure(r) \/ ReportRateLimit(r)
  PROVE  req'[r].pc # "send"
<1>1. req \in [Requests -> RequestState] /\ req[r] \in RequestState
  BY DEF LoopInv, TypeOK
<1>2. CASE ReportFailure(r)
  <2>1. PICK l : req'[r] = [req[r] EXCEPT !.pc = "route", !.key = NoKey,
                                          !.last = l, !.reply = NoReply]
    BY <1>1, <1>2 DEF ReportFailure
  <2>2. QED
    BY <1>1, <2>1 DEF RequestState
<1>3. CASE ReportRateLimit(r)
  BY <1>1, <1>3 DEF ReportRateLimit, RequestState
<1>4. QED
  BY <1>2, <1>3

\* A report keeps the invariant.
LEMMA ReportKeepsRetryInv ==
  ASSUME RetryInv, LoopInv', NEW r \in Requests,
         ReportFailure(r) \/ ReportRateLimit(r), CountTries
  PROVE  RetryInv'
<1>1. UNCHANGED <<maxFailures, reloads>> /\ At(r, "report")
  BY DEF ReportFailure, ReportRateLimit
<1>2. \A q \in Requests \ {r} : req'[q] = req[q]
  BY OthersStay DEF RetryInv, Proceed
<1>3. \A q \in Requests, k \in Keys : ~HandsOut(q, k)
  BY <1>2, ReportPlace DEF RetryInv, HandsOut, At
<1>4. tries' = tries
  BY <1>1, <1>3, NothingHandedOut DEF RetryInv
<1>5. /\ Limit \in Nat \ {0} /\ maxFailures <= Limit /\ maxFailures \in Nat
      /\ Limit' = Limit
  BY <1>1, Numbers DEF RetryInv, LoopInv, TypeOK, ManagerTypeOK, Limit
<1>6. ASSUME NEW q \in Requests, NEW k \in Keys PROVE Accounted(q, k)'
  <2>1. SUFFICES ASSUME InRotation(k)'
                 PROVE  /\ Failures(k)' < Limit
                        /\ tries[q][k] <= Failures(k)' + Charge(q, k)'
    BY <1>4, <1>5 DEF Accounted
  <2>2. /\ InRotation(k)
        /\ IF k = req[r].key
           THEN Failures(k)' = Failures(k) + 1 /\ Failures(k)' < maxFailures
           ELSE Failures(k)' = Failures(k)
    BY <2>1, ReportEffect DEF RetryInv
  <2>3. Failures(k) < Limit /\ tries[q][k] <= Failures(k) + Charge(q, k)
    BY <2>2 DEF RetryInv, Accounted
  <2>4. /\ tries[q][k] \in Nat /\ Charge(q, k) \in {0, 1}
        /\ Charge(q, k)' \in {0, 1} /\ Failures(k) \in Nat
    BY <2>2, Numbers DEF RetryInv, LoopInv, InRotation, Charge
  <2>5. CASE k = req[r].key
    BY <1>5, <2>2, <2>3, <2>4, <2>5
  <2>6. CASE k # req[r].key
    <3>1. Owes(q, k) => Owes(q, k)'
      BY <1>1, <1>2, <2>6 DEF Owes, At
    <3>2. Charge(q, k) <= Charge(q, k)'
      BY <3>1 DEF Charge
    <3>3. QED
      BY <2>2, <2>3, <2>4, <2>6, <3>2
  <2>7. QED
    BY <2>5, <2>6
<1>7. TriesTypeOK' /\ AttemptsBounded'
  BY <1>4, <1>5 DEF RetryInv, TriesTypeOK, AttemptsBounded
<1>8. QED
  BY <1>6, <1>7 DEF RetryInv
-----------------------------------------------------------------------------
\* Counting starts anew: at the beginning, and when the store is replaced.
Fresh ==
  /\ tries = NoTries
  /\ \A k \in DOMAIN keyStates : keyStates[k].failures = 0

\* Right after the start or a reload nothing is counted.
LEMMA FreshCount == LoopInv /\ Fresh => RetryInv
<1> SUFFICES ASSUME LoopInv, Fresh PROVE RetryInv
  OBVIOUS
<1> USE DEF Fresh
<1>1. TriesTypeOK /\ \A r \in Requests, k \in Keys : tries[r][k] = 0
  BY DEF TriesTypeOK, NoTries
<1>2. Limit \in Nat \ {0}
  BY <1>1, Numbers DEF LoopInv
<1>3. AttemptsBounded
  BY <1>1, <1>2 DEF AttemptsBounded
<1>4. ASSUME NEW r \in Requests, NEW k \in Keys PROVE Accounted(r, k)
  <2>1. InRotation(k) => Failures(k) = 0
    BY DEF InRotation, Failures
  <2>2. Charge(r, k) \in {0, 1}
    BY DEF Charge
  <2>3. QED
    BY <1>1, <1>2, <2>1, <2>2 DEF Accounted
<1>5. QED
  BY <1>1, <1>3, <1>4 DEF RetryInv

\* The states a reload creates have no failures.
LEMMA FreshFailures ==
  ASSUME NEW cfg \in Configs
  PROVE  LET states == FreshKeyStates(BuildKeyInfoMap(cfg))
         IN  \A k \in DOMAIN states : states[k].failures = 0
BY FreshManager

\* A reload keeps the invariant.
LEMMA ReloadKeepsRetryInv ==
  ASSUME RetryInv, LoopInv', NEW cfg \in Configs, Reload(cfg), CountTries
  PROVE  RetryInv'
<1>1. reloads \in Nat /\ reloads' = reloads + 1
  BY MaxReloadsAssumption DEF RetryInv, LoopInv, TypeOK, Reload
<1>2. tries' = NoTries
  BY <1>1 DEF CountTries
<1>3. NoTries' = NoTries
  BY DEF NoTries
<1>4. \A k \in DOMAIN keyStates' : keyStates'[k].failures = 0
  BY FreshFailures DEF Reload, ReloadKeyManager
<1>5. QED
  <2>1. Fresh'
    BY <1>2, <1>3, <1>4 DEF Fresh
  <2>2. QED
    BY <2>1, FreshCount, PTL

\* Every step keeps the invariant.
LEMMA RetryStep ==
  ASSUME RetryInv, [RetryNext]_retryVars
  PROVE  RetryInv'
<1>1. LoopInv'
  BY LoopStep DEF RetryInv, RetryNext, retryVars
<1>2. CASE UNCHANGED retryVars
  BY <1>1, <1>2 DEF retryVars, vars, managerVars, storeVars, RetryInv,
     TriesTypeOK, AttemptsBounded, Limit, Accounted, InRotation, Failures,
     Charge, Owes
<1>3. CASE UNCHANGED vars /\ CountTries
  <2>1. \A r \in Requests, k \in Keys : ~HandsOut(r, k)
    BY <1>3 DEF vars, HandsOut, At
  <2>2. tries' = tries
    BY <1>3, <2>1, NothingHandedOut DEF vars, RetryInv
  <2>3. QED
    BY <1>2, <1>3, <2>2 DEF retryVars
<1>4. ASSUME NEW r \in Requests, Arrive(r) \/ Proceed(r) \/ Cancel(r), CountTries
      PROVE  RetryInv'
  <2>1. CASE TakeKey(r)
    BY <1>1, <1>4, <2>1, TakeKeepsRetryInv
  <2>2. CASE ReportFailure(r) \/ ReportRateLimit(r)
    BY <1>1, <1>4, <2>2, ReportKeepsRetryInv
  <2>3. CASE QuietMove(r)
    BY <1>1, <1>4, <2>3, QuietKeepsRetryInv
  <2>4. QED
    BY <1>4, <2>1, <2>2, <2>3, Zenon DEF Proceed, QuietMove
<1>5. ASSUME NEW cfg \in Configs, Reload(cfg), CountTries PROVE RetryInv'
  BY <1>1, <1>5, ReloadKeepsRetryInv
<1>6. QED
  BY <1>2, <1>3, <1>4, <1>5 DEF RetryNext, Next, Terminated

\* Between two reloads no request is handed the same key more often than the
\* failure threshold allows: the retry loop, which counts no attempts, cannot
\* use a key up more than that, whatever the other requests report.
THEOREM RetriesBounded == RetrySpec => []AttemptsBounded
<1>1. RetryInit => RetryInv
  <2>1. SUFFICES ASSUME RetryInit PROVE RetryInv
    OBVIOUS
  <2>2. \A k \in DOMAIN keyStates : keyStates[k].failures = 0
    BY <2>1, FreshFailures DEF RetryInit, Init, NewKeyManager
  <2>3. QED
    BY <2>1, <2>2, InitLoop, FreshCount DEF RetryInit, Fresh
<1>2. RetryInv /\ [RetryNext]_retryVars => RetryInv'
  BY RetryStep
<1>3. RetryInv => AttemptsBounded
  BY DEF RetryInv
<1>4. QED
  BY <1>1, <1>2, <1>3, PTL DEF RetrySpec
-----------------------------------------------------------------------------
\* The first c indexes of a ring of keys, counted at the key each one falls on:
\* every key has had q turns, and the first m keys of the ring one more.
Spread(pool, c, t) ==
  LET n == Cardinality(pool)
  IN  \E q \in Nat, m \in 0..(n - 1) :
        /\ c = n * q + m
        /\ \A p \in 0..(n - 1) :
             t[SortedKeys[pool][p + 1]] = IF p < m THEN q + 1 ELSE q

\* The ring names every one of its keys, each at one place.
LEMMA RingOnce ==
  ASSUME NEW S \in SUBSET Keys
  PROVE  LET n == Cardinality(S)
         IN  /\ n \in Nat
             /\ SortedKeys[S] \in [1..n -> S]
             /\ \A k \in S : \E i \in 1..n : SortedKeys[S][i] = k
             /\ \A i, j \in 1..n : SortedKeys[S][i] = SortedKeys[S][j] => i = j
<1> DEFINE n == Cardinality(S)
           f == SortedKeys[S]
<1>1. IsFiniteSet(S) /\ n \in Nat
  BY SortedKeysAssumption, FS_Subset, FS_CardinalityType
<1>2. f \in [1..n -> S] /\ \A k \in S : \E i \in 1..n : f[i] = k
  BY SortedKeysAssumption
<1>3. IsFiniteSet(1..n) /\ Cardinality(1..n) = n
  BY <1>1, FS_Interval
<1>4. f \in Surjection(1..n, S)
  BY <1>2 DEF Surjection
<1>5. f \in Injection(1..n, S)
  BY <1>1, <1>3, <1>4, FS_SurjSameCardinalityImpliesInj
<1>6. QED
  BY <1>1, <1>2, <1>5 DEF Injection, IsInjective

\* The next index gives the next key of the ring its turn.
LEMMA NextTurn ==
  ASSUME NEW pool \in SUBSET Keys, pool # {}, NEW c \in Nat,
         NEW t \in [Keys -> Nat], NEW u \in [Keys -> Nat],
         Spread(pool, c, t),
         \A k \in Keys :
           u[k] = IF CandidateAt(pool, c) = k THEN t[k] + 1 ELSE t[k]
  PROVE  Spread(pool, c + 1, u)
<1> DEFINE n == Cardinality(pool)
           f == SortedKeys[pool]
<1>1. n \in Nat \ {0}
  BY CandidateAtType
<1>2. PICK q \in Nat, m \in 0..(n - 1) :
        /\ c = n * q + m
        /\ \A p \in 0..(n - 1) : t[f[p + 1]] = IF p < m THEN q + 1 ELSE q
  BY DEF Spread
<1>3. /\ f \in [1..n -> pool]
      /\ \A i, j \in 1..n : f[i] = f[j] => i = j
  BY RingOnce
<1>4. c % n = m
  BY <1>1, <1>2, RemainderOf
<1>5. CandidateAt(pool, c) = f[m + 1]
  BY <1>4 DEF CandidateAt
<1> HIDE DEF n, f
<1>6. \A p \in 0..(n - 1) : u[f[p + 1]] = IF p <= m THEN q + 1 ELSE q
  <2> SUFFICES ASSUME NEW p \in 0..(n - 1)
               PROVE  u[f[p + 1]] = IF p <= m THEN q + 1 ELSE q
    OBVIOUS
  <2>1. p + 1 \in 1..n /\ m + 1 \in 1..n
    BY <1>1
  <2>2. f[p + 1] \in Keys /\ (f[m + 1] = f[p + 1] <=> m = p)
    BY <1>1, <1>3, <2>1
  <2>3. u[f[p + 1]] = IF m = p THEN t[f[p + 1]] + 1 ELSE t[f[p + 1]]
    BY <1>5, <2>2
  <2>4. t[f[p + 1]] = IF p < m THEN q + 1 ELSE q
    BY <1>2
  <2>5. QED
    BY <1>1, <2>3, <2>4
<1>7. CASE m + 1 < n
  <2>1. m + 1 \in 0..(n - 1) /\ c + 1 = n * q + (m + 1)
    BY <1>1, <1>2, <1>7
  <2>2. \A p \in 0..(n - 1) : u[f[p + 1]] = IF p < m + 1 THEN q + 1 ELSE q
    BY <1>1, <1>6
  <2>3. QED
    BY <2>1, <2>2 DEF Spread, n, f
<1>8. CASE m + 1 = n
  <2>1. 0 \in 0..(n - 1) /\ q + 1 \in Nat /\ c + 1 = n * (q + 1) + 0
    BY <1>1, <1>2, <1>8
  <2>2. \A p \in 0..(n - 1) :
          u[f[p + 1]] = IF p < 0 THEN (q + 1) + 1 ELSE q + 1
    BY <1>1, <1>6, <1>8
  <2>3. QED
    BY <2>1, <2>2 DEF Spread, n, f
<1>9. QED
  BY <1>1, <1>7, <1>8

\* Two keys of the ring differ by one turn at most.
LEMMA SpreadIsEven ==
  ASSUME NEW pool \in SUBSET Keys, NEW c, NEW t, Spread(pool, c, t),
         NEW a \in pool, NEW b \in pool
  PROVE  t[a] \in Nat /\ t[b] \in Nat /\ t[a] <= t[b] + 1
<1> DEFINE n == Cardinality(pool)
           f == SortedKeys[pool]
<1>1. PICK q \in Nat, m \in 0..(n - 1) :
        \A p \in 0..(n - 1) : t[f[p + 1]] = IF p < m THEN q + 1 ELSE q
  BY DEF Spread
<1>2. n \in Nat /\ \A k \in pool : \E i \in 1..n : f[i] = k
  BY RingOnce
<1> HIDE DEF n, f
<1>3. ASSUME NEW k \in pool PROVE t[k] \in {q, q + 1}
  <2>1. PICK i \in 1..n : f[i] = k
    BY <1>2
  <2>2. i - 1 \in 0..(n - 1) /\ (i - 1) + 1 = i
    BY <1>2
  <2>3. t[f[(i - 1) + 1]] \in {q, q + 1}
    BY <1>1, <2>2
  <2>4. QED
    BY <2>1, <2>2, <2>3
<1>4. QED
  BY <1>3
-----------------------------------------------------------------------------
\* The requests of the group that are on their walk, having started at the key:
\* their turn is counted and not yet turned into a hand-out.
Walkers(g, k) ==
  {r \in Requests : At(r, "probe") /\ req[r].group = g /\ StartsAt(r, k)}

\* The counter of a group says how its keys' turns are spread over the ring.
TurnsSpread(g) ==
  (CandidateKeys(g) # {} /\ ~SharesCounter(g)) =>
    Spread(CandidateKeys(g), counters[GroupId(g)], turns[g])

NoneBlocked(g) == \A k \in CandidateKeys(g) : ~keyStates[k].blocked

\* While no key of the group is blocked, every hand-out of one took a turn of
\* its own, which no walking request still counts on.
HandOutsTookTurns(g, k) ==
  /\ IsFiniteSet(Walkers(g, k))
  /\ NoneBlocked(g) =>
       handed[g][k] + Cardinality(Walkers(g, k)) <= turns[g][k]

RotationInv ==
  /\ LoopInv
  /\ HistoryTypeOK
  /\ \A g \in RequestGroup : TurnsSpread(g)
  /\ \A g \in RequestGroup, k \in Keys : HandOutsTookTurns(g, k)

\* What every step but a reload leaves of the keys.
KeysStay ==
  /\ UNCHANGED <<keyInfo, reloads>>
  /\ DOMAIN keyStates' = DOMAIN keyStates
  /\ \A k \in DOMAIN keyStates : keyStates[k].blocked => keyStates'[k].blocked

\* Every step of a request leaves the configured keys, and the blocked ones.
LEMMA RequestsLeaveKeys ==
  ASSUME LoopInv, NEW r \in Requests, Arrive(r) \/ Proceed(r) \/ Cancel(r)
  PROVE  KeysStay
<1>1. CASE ReportFailure(r) \/ ReportRateLimit(r)
  <2> DEFINE k == req[r].key
             t == Process(req[r].reply) = BlockKeyAndRetry
  <2>1. k \in Keys
    BY <1>1 DEF LoopInv, HoldsKey, ReportFailure, ReportRateLimit, At
  <2>2. \/ k \in DOMAIN keyStates /\ UpdateFailureState(k, t, maxFailures)
        \/ SetKeyRateLimited(k)
    BY <1>1 DEF ReportFailure, ReportRateLimit
  <2>3. /\ DOMAIN keyStates' = DOMAIN keyStates
        /\ \A j \in DOMAIN keyStates :
             /\ j # k => keyStates'[j] = keyStates[j]
             /\ keyStates[j].blocked => keyStates'[j].blocked
    BY <2>1, <2>2, StoreStep DEF LoopInv
  <2>4. UNCHANGED <<keyInfo, reloads>>
    BY <1>1 DEF ReportFailure, ReportRateLimit
  <2>5. QED
    BY <2>3, <2>4 DEF KeysStay
<1>2. CASE QuietMove(r) \/ TakeKey(r)
  BY <1>2 DEF KeysStay, QuietMove, TakeKey, Arrive, Route, DrawIndex, SkipKey,
     UpstreamRefuses, Wake, NothingToSelect, GiveUp, UpstreamError,
     UpstreamAnswers, ReportRejected, Cancel, NextRotationIndex, managerVars,
     storeVars
<1>3. QED
  BY <1>1, <1>2, Zenon DEF Proceed, QuietMove

\* The candidates of a group stay, and what was unblocked after was so before.
LEMMA PoolStays ==
  ASSUME LoopInv, KeysStay, NEW g
  PROVE  CandidateKeys(g)' = CandidateKeys(g) /\ (NoneBlocked(g)' => NoneBlocked(g))
<1>1. CandidateKeys(g)' = CandidateKeys(g)
  BY DEF KeysStay, CandidateKeys
<1>2. CandidateKeys(g) \subseteq DOMAIN keyStates
  BY DEF CandidateKeys
<1>3. QED
  BY <1>1, <1>2 DEF KeysStay, NoneBlocked

\* The counts after a step that is no reload.
LEMMA CountsAfter ==
  ASSUME HistoryTypeOK, CountTurns, reloads' = reloads
  PROVE  /\ HistoryTypeOK'
         /\ \A g \in RequestGroup, k \in Keys :
              /\ turns[g][k] \in Nat /\ handed[g][k] \in Nat
              /\ turns'[g][k] =
                   IF GivesTurn(g, k) THEN turns[g][k] + 1 ELSE turns[g][k]
              /\ handed'[g][k] =
                   IF HandsOutFor(g, k) THEN handed[g][k] + 1 ELSE handed[g][k]
<1>1. \A g \in RequestGroup, k \in Keys :
        turns[g][k] \in Nat /\ handed[g][k] \in Nat
  BY DEF HistoryTypeOK
<1> DEFINE t(g, k) == turns[g][k] + (IF GivesTurn(g, k) THEN 1 ELSE 0)
           h(g, k) == handed[g][k] + (IF HandsOutFor(g, k) THEN 1 ELSE 0)
<1>2. /\ turns' = [g \in RequestGroup |-> [k \in Keys |-> t(g, k)]]
      /\ handed' = [g \in RequestGroup |-> [k \in Keys |-> h(g, k)]]
  BY DEF CountTurns
<1>3. \A g \in RequestGroup, k \in Keys :
        /\ t(g, k) \in Nat /\ h(g, k) \in Nat
        /\ t(g, k) = IF GivesTurn(g, k) THEN turns[g][k] + 1 ELSE turns[g][k]
        /\ h(g, k) =
             IF HandsOutFor(g, k) THEN handed[g][k] + 1 ELSE handed[g][k]
  BY <1>1
<1> HIDE DEF t, h
<1>4. QED
  BY <1>1, <1>2, <1>3 DEF HistoryTypeOK

\* A group that shares its counter with no other draws from it alone.
LEMMA OwnCounter ==
  ASSUME NEW g \in RequestGroup, ~SharesCounter(g), NEW h \in RequestGroup,
         GroupId(h) = GroupId(g)
  PROVE  h = g
BY NoGroupAssumption DEF SharesCounter, GroupId, RequestGroup

\* A step that draws no index leaves the turns spread as they were.
LEMMA SpreadStays ==
  ASSUME RotationInv, KeysStay, CountTurns, UNCHANGED counters,
         \A g \in RequestGroup, k \in Keys : ~GivesTurn(g, k),
         NEW g \in RequestGroup
  PROVE  TurnsSpread(g)'
<1>1. CandidateKeys(g)' = CandidateKeys(g)
  BY PoolStays DEF RotationInv
<1>2. \A k \in Keys : turns'[g][k] = turns[g][k]
  BY CountsAfter DEF RotationInv, KeysStay
<1>3. turns[g] \in [Keys -> Nat] /\ turns'[g] \in [Keys -> Nat]
  BY CountsAfter DEF RotationInv, KeysStay, HistoryTypeOK
<1>4. turns'[g] = turns[g]
  BY <1>2, <1>3
<1>5. TurnsSpread(g)
  BY DEF RotationInv
<1>6. QED
  BY <1>1, <1>4, <1>5 DEF TurnsSpread, SharesCounter

\* A key that is neither given a turn nor handed out, and gains no walker.
LEMMA CountsStay ==
  ASSUME RotationInv, KeysStay, CountTurns,
         NEW g \in RequestGroup, NEW k \in Keys,
         ~GivesTurn(g, k), ~HandsOutFor(g, k),
         Walkers(g, k)' \subseteq Walkers(g, k)
  PROVE  HandOutsTookTurns(g, k)'
<1> DEFINE W == Walkers(g, k)
           V == Walkers(g, k)'
<1>1. HandOutsTookTurns(g, k)
  BY DEF RotationInv
<1>2. IsFiniteSet(V) /\ Cardinality(V) <= Cardinality(W)
  BY <1>1, FS_Subset DEF HandOutsTookTurns
<1>3. Cardinality(V) \in Nat /\ Cardinality(W) \in Nat
  BY <1>1, <1>2, FS_CardinalityType DEF HandOutsTookTurns
<1>4. /\ turns'[g][k] = turns[g][k] /\ handed'[g][k] = handed[g][k]
      /\ turns[g][k] \in Nat /\ handed[g][k] \in Nat
  BY CountsAfter DEF RotationInv, KeysStay
<1>5. NoneBlocked(g)' => NoneBlocked(g)
  BY PoolStays DEF RotationInv
<1> HIDE DEF W, V
<1>6. IsFiniteSet(Walkers(g, k))' /\ Cardinality(Walkers(g, k))' = Cardinality(V)
  BY <1>2 DEF V
<1>7. NoneBlocked(g) => handed[g][k] + Cardinality(W) <= turns[g][k]
  BY <1>1 DEF HandOutsTookTurns, W
<1>8. NoneBlocked(g)' => handed'[g][k] + Cardinality(V) <= turns'[g][k]
  BY <1>2, <1>3, <1>4, <1>5, <1>7
<1>9. QED
  BY <1>6, <1>8 DEF HandOutsTookTurns
-----------------------------------------------------------------------------
\* A request that leaves its walk, or was on none, and takes no key.
LEMMA OffTheWalk ==
  ASSUME RotationInv, LoopInv', CountTurns, NEW r \in Requests,
         Arrive(r) \/ Proceed(r) \/ Cancel(r),
         req'[r].pc \notin {"probe", "send"}, UNCHANGED counters
  PROVE  RotationInv'
<1>1. KeysStay
  BY RequestsLeaveKeys DEF RotationInv
<1>2. \A q \in Requests \ {r} : req'[q] = req[q]
  BY OthersStay DEF RotationInv
<1>3. \A g \in RequestGroup, k \in Keys : ~GivesTurn(g, k) /\ ~HandsOutFor(g, k)
  BY <1>2 DEF GivesTurn, HandsOutFor, At
<1>4. \A g \in RequestGroup, k \in Keys : Walkers(g, k)' \subseteq Walkers(g, k)
  BY <1>2 DEF Walkers, At, StartsAt
<1>5. HistoryTypeOK'
  BY <1>1, CountsAfter DEF RotationInv, KeysStay
<1>6. \A g \in RequestGroup : TurnsSpread(g)'
  BY <1>1, <1>3, SpreadStays
<1>7. \A g \in RequestGroup, k \in Keys : HandOutsTookTurns(g, k)'
  BY <1>1, <1>3, <1>4, CountsStay
<1>8. QED
  BY <1>5, <1>6, <1>7 DEF RotationInv

\* Going on to the next key of the ring: the walk keeps its start.
LEMMA OnTheWalk ==
  ASSUME RotationInv, LoopInv', CountTurns, NEW r \in Requests, SkipKey(r)
  PROVE  RotationInv'
<1>1. KeysStay
  BY RequestsLeaveKeys DEF RotationInv, Proceed
<1>2. \A q \in Requests \ {r} : req'[q] = req[q]
  BY OthersStay DEF RotationInv, Proceed
<1>3. req[r] \in RequestState /\ req \in [Requests -> RequestState]
  BY DEF RotationInv, LoopInv, TypeOK
<1>4. /\ req[r].pc = "probe" /\ req'[r].pc = "probe"
      /\ req'[r].group = req[r].group /\ req'[r].cands = req[r].cands
      /\ req'[r].start = req[r].start /\ counters' = counters
  BY <1>3 DEF SkipKey, At, RequestState, managerVars, storeVars
<1>5. \A g \in RequestGroup, k \in Keys : ~GivesTurn(g, k) /\ ~HandsOutFor(g, k)
  BY <1>2, <1>4 DEF GivesTurn, HandsOutFor, At
<1>6. \A g \in RequestGroup, k \in Keys : Walkers(g, k)' \subseteq Walkers(g, k)
  BY <1>2, <1>4 DEF Walkers, At, StartsAt
<1>7. HistoryTypeOK'
  BY <1>1, CountsAfter DEF RotationInv, KeysStay
<1>8. \A g \in RequestGroup : TurnsSpread(g)'
  BY <1>1, <1>4, <1>5, SpreadStays
<1>9. \A g \in RequestGroup, k \in Keys : HandOutsTookTurns(g, k)'
  BY <1>1, <1>5, <1>6, CountsStay
<1>10. QED
  BY <1>7, <1>8, <1>9 DEF RotationInv

\* Drawing an index: the key it falls on gets its turn, and the request walks.
LEMMA DrawKeepsRotation ==
  ASSUME RotationInv, LoopInv', CountTurns, NEW r \in Requests, DrawIndex(r)
  PROVE  RotationInv'
<1> DEFINE g == req[r].group
           pool == CandidateKeys(g)
           c == counters[GroupId(g)]
           k == CandidateAt(pool, c)
<1>1. KeysStay
  BY RequestsLeaveKeys DEF RotationInv, Proceed
<1>2. \A q \in Requests \ {r} : req'[q] = req[q]
  BY OthersStay DEF RotationInv, Proceed
<1>3. /\ req[r] \in RequestState /\ req \in [Requests -> RequestState]
      /\ counters \in [CounterId -> Nat]
      /\ g \in RequestGroup
  BY DEF RotationInv, LoopInv, TypeOK, ManagerTypeOK, StoreTypeOK, RequestState,
     RequestGroup
<1>4. \A h \in RequestGroup : GroupId(h) \in CounterId
  BY DEF GroupId, CounterId, RequestGroup
<1>5. pool # {} /\ pool \in SUBSET Keys /\ c \in Nat
  BY <1>3, <1>4, CandidatesKnown DEF RotationInv, LoopInv, DrawIndex
<1>6. counters' = [counters EXCEPT ![GroupId(g)] = c + 1]
  BY DEF DrawIndex, NextRotationIndex
<1>7. /\ req[r].pc = "select" /\ req'[r].pc = "probe" /\ req'[r].group = g
      /\ req'[r].cands = pool /\ req'[r].start = c
  BY <1>3 DEF DrawIndex, At, RequestState
<1>8. k \in pool
  BY <1>5, CandidateAtType
<1> HIDE DEF c
<1>9. \A h \in RequestGroup, j \in Keys :
        /\ ~HandsOutFor(h, j)
        /\ GivesTurn(h, j) <=> (h = g /\ j = k)
  <2>1. \A j : StartsAt(r, j)' <=> j = k
    BY <1>7 DEF StartsAt
  <2>2. \A h \in RequestGroup, j \in Keys : ~HandsOutFor(h, j)
    BY <1>2, <1>7 DEF HandsOutFor, At
  <2>3. ASSUME NEW h \in RequestGroup, NEW j \in Keys
        PROVE  GivesTurn(h, j) <=> (h = g /\ j = k)
    <3>1. \A q \in Requests :
            (req[q].pc = "select" /\ req'[q].pc = "probe") <=> q = r
      BY <1>2, <1>7
    <3> HIDE DEF g, k
    <3>2. GivesTurn(h, j) <=> (req[r].group = h /\ StartsAt(r, j)')
      BY <3>1 DEF GivesTurn, At
    <3>3. QED
      BY <2>1, <3>2 DEF g
  <2>4. QED
    BY <2>2, <2>3
<1>10. /\ HistoryTypeOK'
       /\ \A h \in RequestGroup, j \in Keys :
            /\ turns[h][j] \in Nat /\ handed[h][j] \in Nat
            /\ turns'[h][j] =
                 IF h = g /\ j = k THEN turns[h][j] + 1 ELSE turns[h][j]
            /\ handed'[h][j] = handed[h][j]
  BY <1>1, <1>9, CountsAfter DEF RotationInv, KeysStay
<1>11. ASSUME NEW h \in RequestGroup PROVE TurnsSpread(h)'
  <2>1. CandidateKeys(h)' = CandidateKeys(h)
    BY <1>1, PoolStays DEF RotationInv
  <2>2. turns[h] \in [Keys -> Nat] /\ turns'[h] \in [Keys -> Nat]
    BY <1>10 DEF RotationInv, HistoryTypeOK
  <2>3. TurnsSpread(h) /\ SharesCounter(h)' = SharesCounter(h)
    BY DEF RotationInv, SharesCounter
  <2>4. CASE h = g
    <3> SUFFICES ASSUME ~SharesCounter(h)
                 PROVE  Spread(pool, c + 1, turns'[h])
      <4>1. counters'[GroupId(h)] = c + 1
        BY <1>3, <1>4, <1>6, <2>4
      <4>2. GroupId(h)' = GroupId(h)
        BY DEF GroupId
      <4>3. CandidateKeys(h)' = pool
        BY <2>1, <2>4
      <4>4. QED
        BY <4>1, <4>2, <4>3, <2>3 DEF TurnsSpread
    <3>1. Spread(pool, c, turns[h])
      BY <1>5, <2>3, <2>4 DEF TurnsSpread, c
    <3>2. \A j \in Keys :
            turns'[h][j] = IF CandidateAt(pool, c) = j
                           THEN turns[h][j] + 1 ELSE turns[h][j]
      BY <1>10, <2>4 DEF c
    <3> HIDE DEF pool, g
    <3>3. QED
      BY <1>5, <2>2, <3>1, <3>2, NextTurn
  <2>5. CASE h # g
    <3>1. \A j \in Keys : turns'[h][j] = turns[h][j]
      BY <1>10, <2>5
    <3>2. turns'[h] = turns[h]
      BY <2>2, <3>1
    <3>3. ~SharesCounter(h) => counters'[GroupId(h)] = counters[GroupId(h)]
      BY <1>3, <1>4, <1>6, <2>5, OwnCounter
    <3>4. QED
      BY <2>1, <2>3, <3>2, <3>3 DEF TurnsSpread, GroupId
  <2>6. QED
    BY <2>4, <2>5
<1>12. ASSUME NEW h \in RequestGroup, NEW j \in Keys PROVE HandOutsTookTurns(h, j)'
  <2>1. \A q \in Requests \ {r} : /\ At(q, "probe")' = At(q, "probe")
                                  /\ StartsAt(q, j)' = StartsAt(q, j)
                                  /\ req'[q].group = req[q].group
    BY <1>2 DEF At, StartsAt
  <2>2. r \notin Walkers(h, j) /\ At(r, "probe")'
    BY <1>7 DEF Walkers, At
  <2>3. StartsAt(r, j)' <=> j = k
    BY <1>7 DEF StartsAt
  <2>4. CASE h = g /\ j = k
    <3>1. Walkers(h, j)' = Walkers(h, j) \cup {r}
      <4>1. req'[r].group = h /\ StartsAt(r, j)'
        BY <1>7, <2>3, <2>4
      <4> HIDE DEF g, k, pool
      <4>2. QED
        BY <2>1, <2>2, <4>1 DEF Walkers
    <3>2. HandOutsTookTurns(h, j)
      BY DEF RotationInv
    <3>3. /\ IsFiniteSet(Walkers(h, j) \cup {r})
          /\ Cardinality(Walkers(h, j) \cup {r}) = Cardinality(Walkers(h, j)) + 1
          /\ Cardinality(Walkers(h, j)) \in Nat
      BY <2>2, <3>2, FS_AddElement, FS_CardinalityType DEF HandOutsTookTurns
    <3>4. turns'[h][j] = turns[h][j] + 1 /\ handed'[h][j] = handed[h][j]
      BY <1>10, <2>4
    <3>5. NoneBlocked(h)' => NoneBlocked(h)
      BY <1>1, PoolStays DEF RotationInv
    <3>6. turns[h][j] \in Nat /\ handed[h][j] \in Nat
      BY <1>10
    <3>7. NoneBlocked(h) =>
            handed[h][j] + Cardinality(Walkers(h, j)) <= turns[h][j]
      BY <3>2 DEF HandOutsTookTurns
    <3>8. NoneBlocked(h)' =>
            handed'[h][j] + Cardinality(Walkers(h, j) \cup {r}) <= turns'[h][j]
      BY <3>3, <3>4, <3>5, <3>6, <3>7
    <3>9. Cardinality(Walkers(h, j))' = Cardinality(Walkers(h, j) \cup {r})
      BY <3>1
    <3>10. IsFiniteSet(Walkers(h, j))'
      BY <3>1, <3>3
    <3>11. QED
      BY <3>8, <3>9, <3>10 DEF HandOutsTookTurns
  <2>5. CASE ~(h = g /\ j = k)
    <3>1. ~(req'[r].group = h /\ StartsAt(r, j)')
      BY <1>7, <2>3, <2>5
    <3>2. Walkers(h, j)' \subseteq Walkers(h, j)
      BY <2>1, <3>1 DEF Walkers
    <3>3. ~GivesTurn(h, j) /\ ~HandsOutFor(h, j)
      BY <1>9, <2>5
    <3>4. QED
      BY <1>1, <3>2, <3>3, CountsStay
  <2>6. QED
    BY <2>4, <2>5
<1>13. QED
  BY <1>10, <1>11, <1>12 DEF RotationInv

\* While no key of its group is blocked, a request is handed the key that its
\* walk started at.
LEMMA FirstKeyTaken ==
  ASSUME LoopInv, NEW r \in Requests, At(r, "probe"), NoneBlocked(req[r].group)
  PROVE  StartsAt(r, Probed(r))
<1> DEFINE S == req[r].cands
<1>1. /\ S = CandidateKeys(req[r].group) /\ S # {} /\ S \in SUBSET Keys
      /\ req[r].start \in Nat /\ req[r].probe \in Nat
      /\ \A i \in 0..(req[r].probe - 1) :
           ~SeenAvailable(CandidateAt(S, req[r].start + i))
  BY DEF LoopInv, Walking, TypeOK, RequestState
<1>2. CandidateAt(S, req[r].start + 0) \in S
  BY <1>1, CandidateAtType
<1>3. SeenAvailable(CandidateAt(S, req[r].start + 0))
  BY <1>1, <1>2 DEF SeenAvailable, NoneBlocked
<1>4. req[r].probe = 0
  BY <1>1, <1>3
<1>5. req[r].start + req[r].probe = req[r].start
  BY <1>1, <1>4
<1>6. QED
  BY <1>5 DEF Probed, StartsAt

\* A hand-out uses up a turn of its own.
LEMMA TakeKeepsRotation ==
  ASSUME RotationInv, LoopInv', CountTurns, NEW r \in Requests, TakeKey(r)
  PROVE  RotationInv'
<1> DEFINE g == req[r].group
           k == Probed(r)
<1>1. KeysStay
  BY RequestsLeaveKeys DEF RotationInv, Proceed
<1>2. \A q \in Requests \ {r} : req'[q] = req[q]
  BY OthersStay DEF RotationInv, Proceed
<1>3. req[r] \in RequestState /\ req \in [Requests -> RequestState]
  BY DEF RotationInv, LoopInv, TypeOK
<1>4. /\ req[r].pc = "probe" /\ req'[r].pc = "send" /\ req'[r].key = k
      /\ counters' = counters
  BY <1>3 DEF TakeKey, At, RequestState, managerVars, storeVars
<1>5. \A h \in RequestGroup, j \in Keys :
        /\ ~GivesTurn(h, j)
        /\ HandsOutFor(h, j) <=> (h = g /\ j = k)
  <2>1. \A h \in RequestGroup, j \in Keys : ~GivesTurn(h, j)
    BY <1>2, <1>4 DEF GivesTurn, At
  <2>2. \A q \in Requests : (req[q].pc = "probe" /\ req'[q].pc = "send") <=> q = r
    BY <1>2, <1>4
  <2>3. QED
    BY <1>4, <2>1, <2>2 DEF HandsOutFor, At
<1>6. /\ HistoryTypeOK'
      /\ \A h \in RequestGroup, j \in Keys :
           /\ turns[h][j] \in Nat /\ handed[h][j] \in Nat
           /\ turns'[h][j] = turns[h][j]
           /\ handed'[h][j] =
                IF h = g /\ j = k THEN handed[h][j] + 1 ELSE handed[h][j]
  BY <1>1, <1>5, CountsAfter DEF RotationInv, KeysStay
<1>7. \A h \in RequestGroup : TurnsSpread(h)'
  BY <1>1, <1>4, <1>5, SpreadStays
<1>8. ASSUME NEW h \in RequestGroup, NEW j \in Keys PROVE HandOutsTookTurns(h, j)'
  <2>1. Walkers(h, j)' = Walkers(h, j) \ {r}
    BY <1>2, <1>4 DEF Walkers, At, StartsAt
  <2>2. CASE h = g /\ j = k
    <3>1. HandOutsTookTurns(h, j)
      BY DEF RotationInv
    <3>2. /\ IsFiniteSet(Walkers(h, j) \ {r})
          /\ Cardinality(Walkers(h, j) \ {r}) =
               IF r \in Walkers(h, j) THEN Cardinality(Walkers(h, j)) - 1
                                      ELSE Cardinality(Walkers(h, j))
          /\ Cardinality(Walkers(h, j)) \in Nat
      BY <3>1, FS_RemoveElement, FS_CardinalityType DEF HandOutsTookTurns
    <3>3. NoneBlocked(h)' => NoneBlocked(h)
      BY <1>1, PoolStays DEF RotationInv
    <3>4. NoneBlocked(h) => r \in Walkers(h, j)
      BY <1>4, <2>2, FirstKeyTaken DEF RotationInv, Walkers, At
    <3>5. /\ turns'[h][j] = turns[h][j] /\ handed'[h][j] = handed[h][j] + 1
          /\ turns[h][j] \in Nat /\ handed[h][j] \in Nat
      BY <1>6, <2>2
    <3>6. NoneBlocked(h) =>
            handed[h][j] + Cardinality(Walkers(h, j)) <= turns[h][j]
      BY <3>1 DEF HandOutsTookTurns
    <3>7. NoneBlocked(h)' =>
            handed'[h][j] + Cardinality(Walkers(h, j) \ {r}) <= turns'[h][j]
      BY <3>2, <3>3, <3>4, <3>5, <3>6
    <3>8. IsFiniteSet(Walkers(h, j))'
      BY <2>1, <3>2
    <3>9. Cardinality(Walkers(h, j))' = Cardinality(Walkers(h, j) \ {r})
      BY <2>1
    <3>10. QED
      BY <3>7, <3>8, <3>9 DEF HandOutsTookTurns
  <2>3. CASE ~(h = g /\ j = k)
    <3>1. ~GivesTurn(h, j) /\ ~HandsOutFor(h, j)
      BY <1>5, <2>3
    <3>2. QED
      BY <1>1, <2>1, <3>1, CountsStay
  <2>4. QED
    BY <2>2, <2>3
<1>9. QED
  BY <1>6, <1>7, <1>8 DEF RotationInv
-----------------------------------------------------------------------------
\* Fresh counters and fresh histories, and no request on its walk.
NothingDrawn ==
  counters = FreshCounters /\ turns = NoCount /\ handed = NoCount /\ Readers = {}

\* The invariant holds of them.
LEMMA FreshRotation == LoopInv /\ NothingDrawn => RotationInv
<1> SUFFICES ASSUME LoopInv, NothingDrawn PROVE RotationInv
  OBVIOUS
<1> USE DEF NothingDrawn
<1>1. HistoryTypeOK
  BY DEF HistoryTypeOK, NoCount
<1>2. ASSUME NEW g \in RequestGroup, CandidateKeys(g) # {} PROVE TurnsSpread(g)
  <2> DEFINE S == CandidateKeys(g)
             n == Cardinality(S)
  <2>1. S \in SUBSET Keys
    BY CandidatesKnown DEF LoopInv
  <2>2. n \in Nat \ {0}
    BY <1>2, <2>1, CandidateAtType
  <2>3. SortedKeys[S] \in [1..n -> Keys]
    BY <2>1, RingOnce
  <2>4. counters[GroupId(g)] = 0
    BY DEF FreshCounters, GroupId, CounterId, RequestGroup
  <2>5. \A k \in Keys : turns[g][k] = 0
    BY DEF NoCount
  <2> HIDE DEF S, n
  <2>6. \A p \in 0..(n - 1) :
          turns[g][SortedKeys[S][p + 1]] = IF p < 0 THEN 0 + 1 ELSE 0
    BY <2>2, <2>3, <2>5
  <2>7. 0 \in 0..(n - 1) /\ 0 = n * 0 + 0
    BY <2>2
  <2>8. Spread(S, 0, turns[g])
    BY <2>6, <2>7 DEF Spread, n
  <2>9. QED
    BY <2>4, <2>8 DEF TurnsSpread, S
<1>3. ASSUME NEW g \in RequestGroup, NEW k \in Keys PROVE HandOutsTookTurns(g, k)
  <2>1. Walkers(g, k) = {}
    BY DEF Walkers, Readers
  <2>2. turns[g][k] = 0 /\ handed[g][k] = 0
    BY DEF NoCount
  <2>3. QED
    BY <2>1, <2>2, FS_EmptySet DEF HandOutsTookTurns
<1>4. \A g \in RequestGroup : TurnsSpread(g)
  BY <1>2 DEF TurnsSpread
<1>5. QED
  BY <1>1, <1>3, <1>4 DEF RotationInv

\* A reload starts every count afresh, while no request is on its walk.
LEMMA ReloadKeepsRotation ==
  ASSUME RotationInv, LoopInv', NEW cfg \in Configs, Reload(cfg), CountTurns
  PROVE  RotationInv'
<1>1. reloads \in Nat
  BY MaxReloadsAssumption DEF RotationInv, LoopInv, TypeOK
<1>2. reloads' # reloads
  BY <1>1 DEF Reload
<1>3. turns' = NoCount /\ handed' = NoCount
  BY <1>2 DEF CountTurns
<1>4. counters' = FreshCounters /\ Readers' = {}
  BY DEF Reload, ReloadKeyManager, WriteLockFree, Readers, At
<1>5. NothingDrawn'
  BY <1>3, <1>4 DEF NothingDrawn
<1>6. QED
  BY <1>5, FreshRotation, PTL

\* A step that changes nothing keeps the invariant.
LEMMA StutterKeepsRotation ==
  ASSUME RotationInv, UNCHANGED rotationVars
  PROVE  RotationInv'
<1>1. /\ UNCHANGED <<keyInfo, keyStates, counters, req, turns, handed>>
      /\ UNCHANGED vars
  BY DEF rotationVars, vars, managerVars, storeVars
<1>2. LoopInv' /\ HistoryTypeOK'
  BY <1>1, LoopStep DEF RotationInv, HistoryTypeOK
<1>3. \A g \in RequestGroup : TurnsSpread(g)'
  BY <1>1 DEF RotationInv, TurnsSpread, CandidateKeys, GroupId, SharesCounter
<1>4. \A g \in RequestGroup, k \in Keys : HandOutsTookTurns(g, k)'
  <2> SUFFICES ASSUME NEW g \in RequestGroup, NEW k \in Keys
               PROVE  HandOutsTookTurns(g, k)'
    OBVIOUS
  <2>1. Walkers(g, k)' = Walkers(g, k) /\ NoneBlocked(g)' = NoneBlocked(g)
    BY <1>1 DEF Walkers, At, StartsAt, NoneBlocked, CandidateKeys
  <2>2. QED
    BY <1>1, <2>1 DEF RotationInv, HandOutsTookTurns
<1>5. QED
  BY <1>2, <1>3, <1>4 DEF RotationInv

\* Every step keeps the invariant.
LEMMA RotationStep ==
  ASSUME RotationInv, [RotationNext]_rotationVars
  PROVE  RotationInv'
<1>1. LoopInv'
  BY LoopStep DEF RotationInv, RotationNext, rotationVars
<1>2. CASE UNCHANGED rotationVars
  BY <1>2, StutterKeepsRotation
<1>3. CASE UNCHANGED vars /\ CountTurns
  <2>1. KeysStay /\ UNCHANGED counters
    BY <1>3 DEF vars, managerVars, storeVars, KeysStay
  <2>2. \A g \in RequestGroup, k \in Keys : ~GivesTurn(g, k) /\ ~HandsOutFor(g, k)
    BY <1>3 DEF vars, GivesTurn, HandsOutFor, At
  <2>3. \A g \in RequestGroup, k \in Keys : Walkers(g, k)' \subseteq Walkers(g, k)
    BY <1>3 DEF vars, Walkers, At, StartsAt
  <2>4. HistoryTypeOK'
    BY <1>3, <2>1, CountsAfter DEF RotationInv, KeysStay
  <2>5. \A g \in RequestGroup : TurnsSpread(g)'
    BY <1>3, <2>1, <2>2, SpreadStays
  <2>6. \A g \in RequestGroup, k \in Keys : HandOutsTookTurns(g, k)'
    BY <1>3, <2>1, <2>2, <2>3, CountsStay
  <2>7. QED
    BY <1>1, <2>4, <2>5, <2>6 DEF RotationInv
<1>4. ASSUME NEW r \in Requests, Arrive(r) \/ Proceed(r) \/ Cancel(r), CountTurns
      PROVE  RotationInv'
  <2>1. CASE DrawIndex(r)
    BY <1>1, <1>4, <2>1, DrawKeepsRotation
  <2>2. CASE TakeKey(r)
    BY <1>1, <1>4, <2>2, TakeKeepsRotation
  <2>3. CASE SkipKey(r)
    BY <1>1, <1>4, <2>3, OnTheWalk
  <2>4. CASE \/ Arrive(r) \/ Route(r) \/ NothingToSelect(r) \/ GiveUp(r)
             \/ UpstreamError(r) \/ UpstreamAnswers(r) \/ UpstreamRefuses(r)
             \/ ReportFailure(r) \/ ReportRejected(r) \/ ReportRateLimit(r)
             \/ Wake(r) \/ Cancel(r)
    <3>1. req[r] \in RequestState /\ req \in [Requests -> RequestState]
      BY DEF RotationInv, LoopInv, TypeOK
    <3>2. UNCHANGED counters
      BY <2>4 DEF Arrive, Route, NothingToSelect, GiveUp, UpstreamError,
         UpstreamAnswers, UpstreamRefuses, ReportFailure, ReportRejected,
         ReportRateLimit, Wake, Cancel, UpdateFailureState, SetKeyRateLimited,
         managerVars, storeVars
    <3>3. CASE \/ NothingToSelect(r) \/ GiveUp(r) \/ UpstreamError(r)
               \/ UpstreamAnswers(r) \/ ReportRejected(r) \/ Cancel(r)
      <4>1. PICK a : Answer(r, a)
        BY <3>3 DEF NothingToSelect, GiveUp, UpstreamError, UpstreamAnswers,
           ReportRejected, Cancel
      <4>2. req'[r].pc = "done"
        BY <3>1, <4>1 DEF Answer, RequestState
      <4>3. QED
        BY <1>1, <1>4, <3>2, <4>2, OffTheWalk
    <3>4. CASE Arrive(r) \/ Route(r) \/ UpstreamRefuses(r) \/ Wake(r)
      <4>1. CASE Arrive(r) \/ Route(r) \/ Wake(r)
        <5>1. req'[r].pc \in {"route", "select"}
          <6>1. CASE Arrive(r)
            BY <3>1, <6>1 DEF Arrive, RequestState
          <6>2. CASE Route(r)
            BY <3>1, <6>2 DEF Route, RequestState
          <6>3. CASE Wake(r)
            BY <3>1, <6>3 DEF Wake, RequestState
          <6>4. QED
            BY <4>1, <6>1, <6>2, <6>3
        <5>2. QED
          BY <1>1, <1>4, <3>2, <5>1, OffTheWalk
      <4>2. CASE UpstreamRefuses(r)
        BY <1>1, <1>4, <3>1, <3>2, <4>2, OffTheWalk
           DEF UpstreamRefuses, RequestState
      <4>3. QED
        BY <3>4, <4>1, <4>2
    <3>5. CASE ReportFailure(r) \/ ReportRateLimit(r)
      <4>1. CASE ReportFailure(r)
        <5>1. req'[r].pc = "route"
          BY <3>1, <4>1 DEF ReportFailure, RequestState
        <5>2. QED
          BY <1>1, <1>4, <3>2, <5>1, OffTheWalk
      <4>2. CASE ReportRateLimit(r)
        BY <1>1, <1>4, <3>1, <3>2, <4>2, OffTheWalk
           DEF ReportRateLimit, RequestState
      <4>3. QED
        BY <3>5, <4>1, <4>2
    <3>6. QED
      BY <2>4, <3>3, <3>4, <3>5
  <2>5. QED
    BY <1>4, <2>1, <2>2, <2>3, <2>4, Zenon DEF Proceed
<1>5. ASSUME NEW cfg \in Configs, Reload(cfg), CountTurns PROVE RotationInv'
  BY <1>1, <1>5, ReloadKeepsRotation
<1>6. QED
  BY <1>2, <1>3, <1>4, <1>5 DEF RotationNext, Next, Terminated

\* While no key of a group is blocked, no key of it is handed out more than once
\* above the turns of any other: for any number of keys, groups and requests,
\* whatever walks are cancelled and whatever other groups draw between.
THEOREM TurnsAreEven == RotationSpec => []RotationBalanced
<1>1. RotationInit => RotationInv
  <2>1. SUFFICES ASSUME RotationInit PROVE RotationInv
    OBVIOUS
  <2>2. counters = FreshCounters /\ Readers = {}
    BY <2>1 DEF RotationInit, Init, NewKeyManager, Readers, At
  <2>3. QED
    BY <2>1, <2>2, InitLoop, FreshRotation DEF RotationInit, NothingDrawn
<1>2. RotationInv /\ [RotationNext]_rotationVars => RotationInv'
  BY RotationStep
<1>3. RotationInv => RotationBalanced
  <2> SUFFICES ASSUME RotationInv, NEW g \in RequestGroup, ~SharesCounter(g),
                      NoneBlocked(g),
                      NEW a \in CandidateKeys(g), NEW b \in CandidateKeys(g)
               PROVE  handed[g][a] <= turns[g][b] + 1
    BY DEF RotationBalanced, NoneBlocked
  <2>1. CandidateKeys(g) \in SUBSET Keys
    BY CandidatesKnown DEF RotationInv, LoopInv
  <2>2. Spread(CandidateKeys(g), counters[GroupId(g)], turns[g])
    BY DEF RotationInv, TurnsSpread
  <2>3. turns[g][a] <= turns[g][b] + 1 /\ turns[g][a] \in Nat /\ turns[g][b] \in Nat
    BY <2>1, <2>2, SpreadIsEven
  <2>4. HandOutsTookTurns(g, a)
    BY <2>1 DEF RotationInv
  <2>5. Cardinality(Walkers(g, a)) \in Nat
    BY <2>4, FS_CardinalityType DEF HandOutsTookTurns
  <2>6. handed[g][a] \in Nat
    BY <2>1 DEF RotationInv, HistoryTypeOK
  <2>7. handed[g][a] + Cardinality(Walkers(g, a)) <= turns[g][a]
    BY <2>4 DEF HandOutsTookTurns
  <2>8. QED
    BY <2>3, <2>5, <2>6, <2>7
<1>4. QED
  BY <1>1, <1>2, <1>3, PTL DEF RotationSpec
=============================================================================
