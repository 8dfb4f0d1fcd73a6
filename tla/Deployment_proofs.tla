-------------------------- MODULE Deployment_proofs --------------------------
(***************************************************************************)
(* Proofs about Deployment: what the worker saves is accepted by the next  *)
(* start, a restart restores the configuration in use, a request only      *)
(* misses its client or its breaker after a reload, and an edit of the     *)
(* keys is undone by an update made from an older copy only.               *)
(***************************************************************************)
EXTENDS Deployment, FiniteSetTheorems, WellFoundedInduction, TLAPS

Up   == proc = "up"
Busy == {"save", "write", "build", "swap"}

\* An update as create_and_send_new_config makes it.
UpdateOK(u) == DOMAIN u = {"config", "keys", "current"} /\ Shaped(u.config)

SentOK == \E S : channel \in Seq(S) /\ \A u \in S : UpdateOK(u)

\* What the environment overrides was validated when the process started.
EnvironmentOK ==
  Up => /\ env.redis \notin {None, Unreadable} => ParsesAsUrl(env.redis)
        /\ env.port = 0 => config.server.testMode

ShapesOK == Shaped(config) /\ Shaped(file.config) /\ SentOK

\* An update being installed was validated, with the process's test_mode.
HandOK ==
  worker \in Busy =>
    /\ Up /\ UpdateOK(hand) /\ Valid(hand.config)
    /\ hand.config.server.testMode = config.server.testMode

RestOK ==
  ~Up => worker = "idle" /\ channel = <<>> /\ \A r \in Requests : req[r] = NoRequest

\* File and memory, step by step of the worker.
DiskOK ==
  /\ worker = "write" => file.is = "torn" \/ (ahead /\ ~saved)
  /\ worker \in {"build", "swap"} => file = Whole(hand.config) /\ ahead
  /\ worker = "swap" => Builds(hand.config)
  /\ Up /\ saved /\ Readable => Valid(Loaded)
  /\ Up /\ Readable /\ ~ahead => Loaded = Overridden(config, env)

\* Clients are those of the configuration in use, breakers those of the first.
ResourcesOK ==
  Up => /\ clients = ClientsFor(config) /\ Builds(config)
        /\ ~reloaded => breakers = TargetsOf(config)

\* A request was drawn from the configuration in use, or there was a reload.
RequestOK(q) ==
  /\ ~q.current => reloaded
  /\ q.at = "drawn" /\ q.current =>
       q.proxy \in {None} \cup ProxiesOf(config) /\ q.target \in TargetsOf(config)
  /\ q.at = "no client" => ~q.current \/ config.server.testMode
  /\ q.at = "unguarded" => reloaded

RequestsOK ==
  /\ DOMAIN req = Requests
  /\ \A r \in Requests :
       DOMAIN req[r] = {"proxy", "target", "current", "at"} /\ RequestOK(req[r])

\* The inductive invariant.  The properties say nothing of an update half-way,
\* and everything about the file rests on what the update in hand is.
IInv ==
  ShapesOK /\ EnvironmentOK /\ HandOK /\ RestOK /\ DiskOK /\ ResourcesOK /\ RequestsOK
-----------------------------------------------------------------------------
\* Overriding changes three settings.
LEMMA OverriddenFields ==
  ASSUME NEW c, Shaped(c), NEW e
  PROVE  LET o == Overridden(c, e)
         IN  /\ Shaped(o) /\ o.groups = c.groups
             /\ o.redis = Given(e.redis, c.redis)
             /\ o.threshold = Given(e.threshold, c.threshold)
             /\ o.server = [c.server EXCEPT !.port = Given(e.port, @)]
             /\ o.server.port = Given(e.port, c.server.port)
             /\ o.server.testMode = c.server.testMode
             /\ o.server.connect = c.server.connect
             /\ o.server.request = c.server.request
             /\ o.server.tokenLimit = c.server.tokenLimit
BY SMT DEF Overridden, Shaped

\* An overridden configuration is a record of its fields.
LEMMA OverriddenRecord ==
  ASSUME NEW c, Shaped(c), NEW e
  PROVE  Overridden(c, e) =
           [groups |-> c.groups,
            server |-> [port |-> Given(e.port, c.server.port),
                        connect |-> c.server.connect, request |-> c.server.request,
                        testMode |-> c.server.testMode,
                        tokenLimit |-> c.server.tokenLimit],
            redis |-> Given(e.redis, c.redis),
            threshold |-> Given(e.threshold, c.threshold)]
<1> DEFINE s == [c.server EXCEPT !.port = Given(e.port, @)]
<1>1. s = [port |-> Given(e.port, c.server.port),
           connect |-> c.server.connect, request |-> c.server.request,
           testMode |-> c.server.testMode, tokenLimit |-> c.server.tokenLimit]
  BY DEF Shaped
<1> DEFINE c1 == [c EXCEPT !.redis = Given(e.redis, c.redis)]
           c2 == [c1 EXCEPT !.server = [c1.server EXCEPT !.port = Given(e.port, c1.server.port)]]
<1>2. Overridden(c, e) = [c2 EXCEPT !.threshold = Given(e.threshold, c.threshold)]
  BY SMT DEF Overridden, Shaped
<1>3. /\ DOMAIN c1 = DOMAIN c /\ c1.server = c.server /\ c1.groups = c.groups
      /\ c1.redis = Given(e.redis, c.redis)
  BY SMT DEF Shaped
<1> HIDE DEF c1, s
<1>4. DOMAIN c2 = DOMAIN c /\ c2.server = s /\ c2.groups = c.groups
      /\ c2.redis = Given(e.redis, c.redis)
  BY SMT, <1>3 DEF Shaped, s
<1> HIDE DEF c2
<1>5. Overridden(c, e) =
        [groups |-> c.groups, server |-> s, redis |-> Given(e.redis, c.redis),
         threshold |-> Given(e.threshold, c.threshold)]
  BY SMT, <1>2, <1>4 DEF Shaped
<1> QED
  BY SMT, <1>1, <1>5

\* Overriding twice is overriding once.
LEMMA OverriddenTwice ==
  ASSUME NEW c, Shaped(c), NEW e
  PROVE  Overridden(Overridden(c, e), e) = Overridden(c, e)
<1> DEFINE o == Overridden(c, e)
<1>1. \A v, x : Given(v, Given(v, x)) = Given(v, x)
  BY DEF Given
<1>2. /\ Shaped(o) /\ o.groups = c.groups
      /\ o.redis = Given(e.redis, c.redis)
      /\ o.threshold = Given(e.threshold, c.threshold)
      /\ o.server.port = Given(e.port, c.server.port)
      /\ o.server.testMode = c.server.testMode
      /\ o.server.connect = c.server.connect
      /\ o.server.request = c.server.request
      /\ o.server.tokenLimit = c.server.tokenLimit
  BY OverriddenFields
<1> HIDE DEF o
<1>3. Overridden(o, e) =
        [groups |-> o.groups,
         server |-> [port |-> Given(e.port, o.server.port),
                     connect |-> o.server.connect, request |-> o.server.request,
                     testMode |-> o.server.testMode,
                     tokenLimit |-> o.server.tokenLimit],
         redis |-> Given(e.redis, o.redis),
         threshold |-> Given(e.threshold, o.threshold)]
  BY Zenon, <1>2, OverriddenRecord
<1>4. /\ Given(e.port, o.server.port) = Given(e.port, c.server.port)
      /\ Given(e.redis, o.redis) = Given(e.redis, c.redis)
      /\ Given(e.threshold, o.threshold) = Given(e.threshold, c.threshold)
  BY <1>1, <1>2
<1>5. o = [groups |-> c.groups,
           server |-> [port |-> Given(e.port, c.server.port),
                       connect |-> c.server.connect, request |-> c.server.request,
                       testMode |-> c.server.testMode,
                       tokenLimit |-> c.server.tokenLimit],
           redis |-> Given(e.redis, c.redis),
           threshold |-> Given(e.threshold, c.threshold)]
  BY SMT, OverriddenRecord DEF o
<1>6. Overridden(o, e) = o
  BY SMT, <1>2, <1>3, <1>4, <1>5
<1> QED
  BY <1>6 DEF o

\* Validation of the groups looks at nothing else.
LEMMA SameGroups ==
  ASSUME NEW c, NEW d, c.groups = d.groups PROVE ValidGroups(c) <=> ValidGroups(d)
BY DEF ValidGroups, DuplicateKey

\* A valid configuration stays valid under overrides that a configuration with
\* the same test_mode was valid under.
LEMMA OverriddenValid ==
  ASSUME NEW c, Shaped(c), Valid(c),
         env.redis \notin {None, Unreadable} => ParsesAsUrl(env.redis),
         env.port = 0 => c.server.testMode
  PROVE  Valid(Overridden(c, env))
<1> DEFINE o == Overridden(c, env)
<1>1. /\ o.groups = c.groups
      /\ o.redis = Given(env.redis, c.redis)
      /\ o.server.port = Given(env.port, c.server.port)
      /\ o.server.testMode = c.server.testMode
      /\ o.server.connect = c.server.connect
      /\ o.server.request = c.server.request
      /\ o.server.tokenLimit = c.server.tokenLimit
  BY OverriddenFields
<1> HIDE DEF o
<1>2. ValidGroups(o)
  BY <1>1, SameGroups DEF Valid
<1>3. ValidRedis(o)
  BY <1>1 DEF Valid, ValidRedis, Given
<1>4. ValidServer(o.server)
  <2>1. ValidServer(c.server)
    BY DEF Valid
  <2> QED
    BY Zenon, <1>1, <2>1 DEF ValidServer, Given
<1> QED
  BY <1>2, <1>3, <1>4 DEF Valid, o

\* The overrides of a start that was accepted are acceptable.
LEMMA AcceptedEnvironment ==
  ASSUME NEW c, Shaped(c), Valid(Overridden(c, env))
  PROVE  /\ env.redis \notin {None, Unreadable} => ParsesAsUrl(env.redis)
         /\ env.port = 0 => Overridden(c, env).server.testMode
<1> DEFINE o == Overridden(c, env)
<1>1. o.redis = Given(env.redis, c.redis) /\ o.server.port = Given(env.port, c.server.port)
  BY OverriddenFields
<1> HIDE DEF o
<1>2. ValidRedis(o) /\ ValidServer(o.server)
  BY DEF Valid, o
<1>3. env.redis \notin {None, Unreadable} => ParsesAsUrl(env.redis)
  BY <1>1, <1>2 DEF ValidRedis, Given
<1>4. env.port = 0 => o.server.testMode
  BY <1>1, <1>2, TextsAssumption DEF ValidServer, Given
<1> QED
  BY <1>3, <1>4 DEF o

\* The worker's own test_mode.
LEMMA RestoredOK ==
  ASSUME NEW u, UpdateOK(u)
  PROVE  LET update == [u EXCEPT !.config = Restored(@)]
         IN  UpdateOK(update) /\ update.config.server.testMode = config.server.testMode
<1>1. Shaped(Restored(u.config))
      /\ Restored(u.config).server.testMode = config.server.testMode
  BY SMT DEF UpdateOK, Shaped, Restored
<1> QED
  BY <1>1 DEF UpdateOK

\* Changing a group's keys keeps the shape.
LEMMA WithKeysShaped ==
  ASSUME Shaped(config), NEW i, NEW keys PROVE Shaped(WithKeys(i, keys))
BY SMT DEF WithKeys, Shaped

\* The default configuration has the shape.
LEMMA DefaultShaped == Shaped(DefaultConfig)
BY DEF Shaped, DefaultConfig, DefaultServer

\* A request that has no key yet is right in any state.
LEMMA NoRequestOK ==
  /\ DOMAIN NoRequest = {"proxy", "target", "current", "at"}
  /\ RequestOK(NoRequest) /\ RequestOK(NoRequest)'
<1>1. /\ DOMAIN NoRequest = {"proxy", "target", "current", "at"}
      /\ NoRequest.current /\ NoRequest.at = "idle"
  BY DEF NoRequest
<1> QED
  BY <1>1 DEF RequestOK
-----------------------------------------------------------------------------
\* The initial states have it.
LEMMA InitIInv == Init => IInv
<1> SUFFICES ASSUME Init PROVE IInv
  OBVIOUS
<1>1. Shaped(file.config)
  <2>1. CASE file = Absent
    BY <2>1, DefaultShaped DEF Absent
  <2>2. CASE \E cfg \in Files : file = Whole(cfg)
    BY <2>2, ShapeAssumption DEF Whole
  <2> QED
    BY <2>1, <2>2 DEF Init
<1>2. SentOK
  <2>1. channel \in Seq({})
    BY DEF Init
  <2> QED
    BY <2>1 DEF SentOK
<1>3. ShapesOK
  BY <1>1, <1>2, DefaultShaped DEF Init, ShapesOK
<1>4. EnvironmentOK /\ HandOK /\ RestOK /\ DiskOK /\ ResourcesOK
  BY DEF Init, EnvironmentOK, HandOK, RestOK, DiskOK, ResourcesOK, Up, Busy
<1>5. RequestsOK
  BY DEF Init, RequestsOK, RequestOK, NoRequest
<1> QED
  BY <1>3, <1>4, <1>5 DEF IInv

\* A start takes what it read, validated with the overrides.
LEMMA StartKeeps == ASSUME IInv, Start PROVE IInv'
<1>1. /\ ~Up /\ Up' /\ config' = Loaded /\ clients' = ClientsFor(Loaded)
      /\ breakers' = TargetsOf(Loaded) /\ ~ahead' /\ ~reloaded'
      /\ Readable /\ Valid(Loaded) /\ Builds(Loaded)
      /\ UNCHANGED <<file, env, taken, channel, worker, hand, req, saved>>
  BY DEF Start, CanStart, Up, host, news
<1>2. worker = "idle" /\ \A r \in Requests : req[r] = NoRequest
  BY <1>1 DEF IInv, RestOK
<1>3. Shaped(file.config) /\ Loaded = Overridden(file.config, env)
  BY DEF IInv, ShapesOK, Loaded
<1>4. Shaped(Loaded) /\ Overridden(Loaded, env) = Loaded
  BY <1>3, OverriddenFields, OverriddenTwice
<1>5. Loaded' = Loaded /\ Readable' = Readable
  BY <1>1 DEF Loaded, Readable
<1>6. ShapesOK'
  BY <1>1, <1>4 DEF IInv, ShapesOK, SentOK
<1>7. EnvironmentOK'
  BY <1>1, <1>3, AcceptedEnvironment DEF EnvironmentOK
<1>8. HandOK' /\ RestOK'
  BY <1>1, <1>2 DEF HandOK, RestOK, Busy, Up
<1>9. DiskOK'
  BY <1>1, <1>2, <1>4, <1>5 DEF DiskOK
<1>10. ResourcesOK'
  BY <1>1 DEF ResourcesOK
<1>11. RequestsOK'
  <2>1. DOMAIN req' = Requests /\ \A r \in Requests : req'[r] = NoRequest
    BY <1>1, <1>2 DEF IInv, RequestsOK
  <2> QED
    BY <2>1, NoRequestOK DEF RequestsOK
<1> QED
  BY <1>6, <1>7, <1>8, <1>9, <1>10, <1>11 DEF IInv

\* Everything in memory is lost.
LEMMA StopKeeps == ASSUME IInv, Stop PROVE IInv'
<1>1. /\ ~Up' /\ config' = DefaultConfig /\ channel' = <<>> /\ worker' = "idle"
      /\ req' = [r \in Requests |-> NoRequest] /\ file' = file
  BY DEF Stop, Up
<1>2. channel' \in Seq({})
  BY <1>1
<1>3. ShapesOK'
  BY <1>1, <1>2, DefaultShaped DEF IInv, ShapesOK, SentOK
<1>4. EnvironmentOK' /\ HandOK' /\ RestOK' /\ DiskOK' /\ ResourcesOK'
  BY <1>1 DEF EnvironmentOK, HandOK, RestOK, DiskOK, ResourcesOK, Busy
<1>5. RequestsOK'
  BY <1>1 DEF RequestsOK, RequestOK, NoRequest
<1> QED
  BY <1>3, <1>4, <1>5 DEF IInv

\* A process that did not start, and an operator, change what is outside only.
LEMMA DownKeeps == ASSUME IInv, StartFails \/ Operate PROVE IInv'
<1>1. /\ ~Up /\ ~Up'
      /\ UNCHANGED <<config, channel, worker, hand, req, reloaded>>
  BY DEF StartFails, Operate, Up, memory, news
<1>2. Shaped(file'.config)
  <2>1. CASE file' = file
    BY <2>1 DEF IInv, ShapesOK
  <2>2. CASE \E cfg \in Files : file' = Whole(cfg)
    BY <2>2, ShapeAssumption DEF Whole
  <2> QED
    BY <2>1, <2>2 DEF StartFails, Operate
<1>3. ShapesOK'
  BY <1>1, <1>2 DEF IInv, ShapesOK, SentOK
<1>4. worker = "idle" /\ \A r \in Requests : req[r] = NoRequest
  BY <1>1 DEF IInv, RestOK
<1>5. EnvironmentOK' /\ HandOK' /\ RestOK' /\ DiskOK' /\ ResourcesOK'
  BY <1>1, <1>4 DEF IInv, EnvironmentOK, HandOK, RestOK, DiskOK, ResourcesOK, Busy
<1>6. RequestsOK'
  BY <1>1, <1>4 DEF IInv, RequestsOK, RequestOK, NoRequest
<1> QED
  BY <1>3, <1>5, <1>6 DEF IInv
-----------------------------------------------------------------------------
\* What is neither channel nor request: most steps leave it alone.
Core == <<file, env, proc, config, clients, breakers, worker, hand, ahead, saved, reloaded>>

\* Such a step keeps all if channel and requests stay right.
LEMMA CoreKeeps ==
  ASSUME IInv, UNCHANGED Core, SentOK', RequestsOK', Up
  PROVE  IInv'
<1>1. ShapesOK'
  BY DEF IInv, ShapesOK, Core
<1>2. EnvironmentOK' /\ HandOK' /\ RestOK' /\ ResourcesOK'
  BY DEF IInv, EnvironmentOK, HandOK, RestOK, ResourcesOK, Up, Busy, Core
<1>3. Loaded' = Loaded /\ Readable' = Readable
  BY DEF Loaded, Readable, Core
<1>4. DiskOK'
  BY <1>3 DEF IInv, DiskOK, Up, Core
<1> QED
  BY <1>1, <1>2, <1>4 DEF IInv

\* The requests stay right when nothing they depend on changes.
LEMMA RequestsKept ==
  ASSUME RequestsOK, UNCHANGED <<req, reloaded, config>> PROVE RequestsOK'
<1>1. DOMAIN req' = Requests
  BY DEF RequestsOK
<1>2. \A r \in Requests :
        DOMAIN req'[r] = {"proxy", "target", "current", "at"} /\ RequestOK(req'[r])
  BY DEF RequestsOK
<1> QED
  BY <1>1, <1>2 DEF RequestsOK, RequestOK

\* One more update is in the channel.
LEMMA SendKeeps ==
  ASSUME IInv, NEW cfg, Shaped(cfg), NEW keys, Send(cfg, keys) PROVE IInv'
<1> DEFINE u == UpdateOf(cfg, keys)
<1>1. UpdateOK(u)
  BY DEF UpdateOf, UpdateOK
<1>2. UNCHANGED Core /\ UNCHANGED req /\ Up /\ channel' = Append(channel, u)
  BY DEF Send, Core, host, process, memory, Up
<1> HIDE DEF u
<1>3. PICK S : channel \in Seq(S) /\ \A v \in S : UpdateOK(v)
  BY DEF IInv, ShapesOK, SentOK
<1>4. channel' \in Seq(S \cup {u}) /\ \A v \in S \cup {u} : UpdateOK(v)
  <2>1. channel \in Seq(S \cup {u})
    BY <1>3
  <2> QED
    BY <1>1, <1>2, <1>3, <2>1
<1>5. SentOK'
  BY <1>4 DEF SentOK
<1> QED
  BY <1>2, <1>5, RequestsKept, CoreKeeps DEF IInv, Core

\* The three ways to send an update.
LEMMA EditsKeep ==
  ASSUME IInv,
         \/ \E edit \in Edits : AddKeys(edit) \/ DeleteKeys(edit)
         \/ \E cfg \in Updates : UpdateConfig(cfg)
  PROVE  IInv'
<1>1. \A i, keys : Shaped(WithKeys(i, keys))
  BY WithKeysShaped DEF IInv, ShapesOK
<1>2. \E cfg, keys : Shaped(cfg) /\ Send(cfg, keys)
  <2>1. ASSUME NEW edit \in Edits, AddKeys(edit)
        PROVE  \E cfg, keys : Shaped(cfg) /\ Send(cfg, keys)
    BY <1>1, <2>1 DEF AddKeys
  <2>2. ASSUME NEW edit \in Edits, DeleteKeys(edit)
        PROVE  \E cfg, keys : Shaped(cfg) /\ Send(cfg, keys)
    BY <1>1, <2>2 DEF DeleteKeys
  <2>3. ASSUME NEW update \in Updates, UpdateConfig(update)
        PROVE  \E cfg, keys : Shaped(cfg) /\ Send(cfg, keys)
    BY <2>3, ShapeAssumption DEF UpdateConfig
  <2> QED
    BY <2>1, <2>2, <2>3
<1> QED
  BY <1>2, SendKeeps

\* A request is drawn from the configuration in use.
LEMMA DrawKeeps == ASSUME IInv, NEW r \in Requests, Draw(r) PROVE IInv'
<1>1. UNCHANGED Core /\ UNCHANGED channel /\ Up
  BY DEF Draw, Core, host, process, memory, news, Up
<1>2. PICK i \in 1..Len(config.groups) :
        req' = [req EXCEPT ![r] =
          [proxy |-> config.groups[i].proxy, target |-> config.groups[i].target,
           current |-> TRUE, at |-> "drawn"]]
  BY DEF Draw
<1> DEFINE q == [proxy |-> config.groups[i].proxy, target |-> config.groups[i].target,
                 current |-> TRUE, at |-> "drawn"]
<1>3. q.proxy \in {None} \cup ProxiesOf(config) /\ q.target \in TargetsOf(config)
  BY DEF ProxiesOf, TargetsOf
<1>4. RequestOK(q) /\ DOMAIN q = {"proxy", "target", "current", "at"}
  BY <1>3 DEF RequestOK
<1> HIDE DEF q
<1>5. \A x \in Requests :
        DOMAIN req'[x] = {"proxy", "target", "current", "at"} /\ RequestOK(req'[x])
  BY <1>2, <1>4 DEF q, IInv, RequestsOK
<1>6. RequestsOK'
  BY <1>1, <1>2, <1>5 DEF IInv, RequestsOK, RequestOK, Core
<1>7. SentOK'
  BY <1>1 DEF IInv, ShapesOK, SentOK
<1> QED
  BY <1>1, <1>6, <1>7, CoreKeeps

\* A client is there unless the key is older than the configuration, or
\* test_mode built none; a breaker is there before the first reload.
LEMMA OutcomeOK ==
  ASSUME ResourcesOK, Up, NEW q, RequestOK(q), q.at = "drawn"
  PROVE  LET o == Outcome(q.proxy, q.target)
         IN  /\ o \in {"no client", "unguarded", "guarded"}
             /\ o = "no client" => ~q.current \/ config.server.testMode
             /\ o = "unguarded" => reloaded
<1> DEFINE o == Outcome(q.proxy, q.target)
<1>1. o \in {"no client", "unguarded", "guarded"}
  BY DEF Outcome
<1>2. ASSUME q.current, ~config.server.testMode PROVE o # "no client"
  BY <1>2 DEF Outcome, ResourcesOK, RequestOK, ClientsFor, Builds
<1>3. ASSUME ~reloaded PROVE o # "unguarded"
  BY <1>3 DEF Outcome, ResourcesOK, RequestOK
<1> QED
  BY <1>1, <1>2, <1>3

\* A request looks for its client and its breaker.
LEMMA ConnectKeeps == ASSUME IInv, NEW r \in Requests, Connect(r) PROVE IInv'
<1> DEFINE o == Outcome(req[r].proxy, req[r].target)
           q == [req[r] EXCEPT !.at = o]
<1>1. UNCHANGED Core /\ UNCHANGED channel
  BY DEF Connect, Core, host, process, memory, news
<1>2. Up
  BY DEF Connect, IInv, RestOK, NoRequest
<1>3. RequestOK(req[r]) /\ DOMAIN req[r] = {"proxy", "target", "current", "at"}
  BY DEF IInv, RequestsOK
<1>4. req[r].at = "drawn" /\ req' = [req EXCEPT ![r] = q]
  BY DEF Connect
<1>5. /\ o \in {"no client", "unguarded", "guarded"}
      /\ o = "no client" => ~req[r].current \/ config.server.testMode
      /\ o = "unguarded" => reloaded
  BY <1>2, <1>3, <1>4, OutcomeOK DEF IInv
<1> HIDE DEF o
<1>6. q.at = o /\ q.current = req[r].current
      /\ DOMAIN q = {"proxy", "target", "current", "at"}
  BY <1>3
<1> HIDE DEF q
<1>7. RequestOK(q)
  BY <1>3, <1>5, <1>6 DEF RequestOK
<1>8. \A x \in Requests :
        DOMAIN req'[x] = {"proxy", "target", "current", "at"} /\ RequestOK(req'[x])
  BY <1>4, <1>6, <1>7 DEF IInv, RequestsOK
<1>9. RequestsOK'
  BY <1>1, <1>4, <1>8 DEF IInv, RequestsOK, RequestOK, Core
<1>10. SentOK'
  BY <1>1 DEF IInv, ShapesOK, SentOK
<1> QED
  BY <1>1, <1>2, <1>9, <1>10, CoreKeeps

\* A request ends.
LEMMA FinishKeeps == ASSUME IInv, NEW r \in Requests, Finish(r) PROVE IInv'
<1>1. UNCHANGED Core /\ UNCHANGED channel /\ req' = [req EXCEPT ![r] = NoRequest]
  BY DEF Finish, Core, host, process, memory, news
<1>2. Up
  BY DEF Finish, IInv, RestOK, NoRequest
<1>3. \A x \in Requests :
        DOMAIN req'[x] = {"proxy", "target", "current", "at"} /\ RequestOK(req'[x])
  BY <1>1 DEF IInv, RequestsOK, RequestOK, NoRequest
<1>4. RequestsOK'
  BY <1>1, <1>3 DEF IInv, RequestsOK, RequestOK, Core
<1>5. SentOK'
  BY <1>1 DEF IInv, ShapesOK, SentOK
<1> QED
  BY <1>1, <1>2, <1>4, <1>5, CoreKeeps
-----------------------------------------------------------------------------
\* Everything a step of the worker before the swap leaves alone.
Outside == <<env, proc, config, clients, breakers, req, reloaded>>

\* A step of the worker that leaves memory alone keeps the invariant if it does
\* right by channel, hand and file.
LEMMA WorkerKeeps ==
  ASSUME IInv, Up, UNCHANGED Outside, SentOK', HandOK', DiskOK', Shaped(file'.config)
  PROVE  IInv'
<1>1. ShapesOK'
  BY DEF IInv, ShapesOK, Outside
<1>2. EnvironmentOK' /\ RestOK' /\ ResourcesOK'
  BY DEF IInv, EnvironmentOK, RestOK, ResourcesOK, Up, Outside
<1>3. RequestsOK'
  BY RequestsKept DEF IInv, Outside
<1> QED
  BY <1>1, <1>2, <1>3 DEF IInv

\* What a configuration overrides to while the process runs is what was
\* validated, and so accepted at the next start.
LEMMA HandAccepted ==
  ASSUME IInv, worker \in Busy PROVE Valid(Overridden(hand.config, env))
<1>1. /\ Up /\ UpdateOK(hand) /\ Valid(hand.config)
      /\ hand.config.server.testMode = config.server.testMode
  BY DEF IInv, HandOK
<1>2. /\ env.redis \notin {None, Unreadable} => ParsesAsUrl(env.redis)
      /\ env.port = 0 => hand.config.server.testMode
  BY <1>1 DEF IInv, EnvironmentOK
<1> QED
  BY <1>1, <1>2, OverriddenValid DEF UpdateOK

\* Only an update that is valid with the process's test_mode is taken on.
LEMMA ReceiveKeeps == ASSUME IInv, Receive PROVE IInv'
<1> DEFINE update == [Head(channel) EXCEPT !.config = Restored(@)]
<1>1. /\ Up /\ worker = "idle" /\ channel # <<>> /\ channel' = Tail(channel)
      /\ UNCHANGED Outside /\ UNCHANGED <<file, ahead, saved>>
  BY DEF Receive, WorkerAt, Up, Outside, host, process, memory
<1>2. \/ Valid(update.config) /\ worker' = "save" /\ hand' = update
      \/ worker' = "idle" /\ hand' = NoUpdate
  BY DEF Receive, GivesUp
<1>3. PICK S : channel \in Seq(S) /\ \A u \in S : UpdateOK(u)
  BY DEF IInv, ShapesOK, SentOK
<1>4. Head(channel) \in S /\ channel' \in Seq(S)
  BY <1>1, <1>3
<1>5. UpdateOK(update) /\ update.config.server.testMode = config.server.testMode
  BY <1>3, <1>4, RestoredOK
<1> HIDE DEF update
<1>6. HandOK'
  BY <1>1, <1>2, <1>5 DEF HandOK, Up, Busy, Outside
<1>7. SentOK'
  BY <1>3, <1>4 DEF SentOK
<1>8. Loaded' = Loaded /\ Readable' = Readable
  BY <1>1 DEF Loaded, Readable, Outside
<1>9. DiskOK'
  BY <1>1, <1>2, <1>8 DEF IInv, DiskOK, Up, Outside
<1> QED
  BY <1>1, <1>6, <1>7, <1>9, WorkerKeeps DEF IInv, ShapesOK

\* The file is torn, or the worker gives up before it touched it.
LEMMA TruncateKeeps == ASSUME IInv, Truncate PROVE IInv'
<1>1. /\ Up /\ worker = "save"
      /\ UNCHANGED Outside /\ UNCHANGED <<channel, ahead, saved>>
  BY DEF Truncate, WorkerAt, Up, Outside, host, process, memory
<1>2. SentOK'
  BY <1>1 DEF IInv, ShapesOK, SentOK
<1>3. CASE worker' = "write" /\ file' = Torn /\ hand' = hand
  <2>1. file'.is = "torn" /\ Shaped(file'.config)
    BY <1>3, DefaultShaped DEF Torn
  <2>2. HandOK'
    BY <1>1, <1>3 DEF IInv, HandOK, Up, Busy, Outside
  <2>3. DiskOK'
    BY <1>3, <2>1 DEF DiskOK, Readable
  <2> QED
    BY <1>1, <1>2, <2>1, <2>2, <2>3, WorkerKeeps
<1>4. CASE worker' = "idle" /\ file' = file
  <2>1. HandOK'
    BY <1>4 DEF HandOK, Busy
  <2>2. Loaded' = Loaded /\ Readable' = Readable
    BY <1>1, <1>4 DEF Loaded, Readable, Outside
  <2>3. DiskOK'
    BY <1>1, <1>4, <2>2 DEF IInv, DiskOK, Up, Outside
  <2> QED
    BY <1>1, <1>2, <1>4, <2>1, <2>3, WorkerKeeps DEF IInv, ShapesOK
<1> QED
  BY <1>3, <1>4 DEF Truncate, GivesUp

\* The beginning of a configuration has the shape of one.
LEMMA PartsShaped ==
  ASSUME NEW cfg, Shaped(cfg), NEW part \in PartsOf(cfg) PROVE Shaped(part)
<1>1. PICK i \in 1..Len(cfg.groups) :
        \E g \in PartsOfGroup(cfg.groups[i]) : part = WithPart(cfg, i, g)
  BY DEF PartsOf
<1>2. PICK g \in PartsOfGroup(cfg.groups[i]) : part = WithPart(cfg, i, g)
  BY <1>1
<1>3. DOMAIN part = DOMAIN cfg /\ part.server = cfg.server
  BY SMT, <1>2 DEF WithPart, Shaped
<1> QED
  BY <1>3 DEF Shaped

\* The file holds the update, or a part of it that counts as not installed, or
\* stays as it is.
LEMMA WriteKeeps == ASSUME IInv, Write PROVE IInv'
<1>1. Up /\ worker = "write" /\ UNCHANGED Outside /\ channel' = channel
  BY DEF Write, WorkerAt, Up, Outside, host, process, memory
<1>2. SentOK'
  BY <1>1 DEF IInv, ShapesOK, SentOK
<1>3. CASE worker' = "build" /\ file' = Whole(hand.config) /\ ahead' /\ hand' = hand
  <2>1. file'.config = hand.config
    BY <1>3 DEF Whole
  <2>2. HandOK' /\ UpdateOK(hand)
    BY <1>1, <1>3 DEF IInv, HandOK, Up, Busy, Outside
  <2>3. Valid(Overridden(hand.config, env))
    BY <1>1, HandAccepted DEF Busy
  <2>4. Loaded' = Overridden(hand.config, env)
    BY <1>1, <2>1 DEF Loaded, Outside
  <2>5. DiskOK'
    BY <1>3, <2>3, <2>4 DEF DiskOK
  <2> QED
    BY <1>1, <1>2, <2>1, <2>2, <2>5, WorkerKeeps DEF UpdateOK
<1>4. CASE worker' = "idle" /\ UNCHANGED <<file, ahead, saved>>
  <2>1. HandOK'
    BY <1>4 DEF HandOK, Busy
  <2>2. ~Readable' \/ (ahead' /\ ~saved')
    BY <1>1, <1>4 DEF IInv, DiskOK, Readable
  <2>3. DiskOK'
    BY <1>4, <2>2 DEF DiskOK
  <2> QED
    BY <1>1, <1>2, <1>4, <2>1, <2>3, WorkerKeeps DEF IInv, ShapesOK
<1>5. ASSUME NEW part \in PartsOf(hand.config), file' = Cut(part), ahead', ~saved',
             UNCHANGED <<worker, hand>>
      PROVE  IInv'
  <2>1. HandOK' /\ UpdateOK(hand)
    BY <1>1, <1>5 DEF IInv, HandOK, Up, Busy, Outside
  <2>2. Shaped(file'.config)
    BY <1>5, <2>1, PartsShaped DEF Cut, UpdateOK
  <2>3. DiskOK'
    BY <1>1, <1>5 DEF DiskOK
  <2> QED
    BY <1>1, <1>2, <2>1, <2>2, <2>3, WorkerKeeps
<1> QED
  BY <1>3, <1>4, <1>5 DEF Write, GivesUp

\* The clients can be built, or the file stays ahead of what is in use.
LEMMA BuildKeeps == ASSUME IInv, Build PROVE IInv'
<1>1. /\ Up /\ worker = "build"
      /\ UNCHANGED Outside /\ UNCHANGED <<file, channel, ahead, saved>>
  BY DEF Build, WorkerAt, Up, Outside, host, process, memory
<1>2. \/ worker' = "swap" /\ hand' = hand /\ Builds(hand.config)
      \/ worker' = "idle"
  BY DEF Build, GivesUp
<1>3. SentOK'
  BY <1>1 DEF IInv, ShapesOK, SentOK
<1>4. HandOK'
  BY <1>1, <1>2 DEF IInv, HandOK, Up, Busy, Outside
<1>5. Loaded' = Loaded /\ Readable' = Readable
  BY <1>1 DEF Loaded, Readable, Outside
<1>6. DiskOK'
  BY <1>1, <1>2, <1>5 DEF IInv, DiskOK, Up, Outside
<1> QED
  BY <1>1, <1>3, <1>4, <1>6, WorkerKeeps DEF IInv, ShapesOK

\* Memory takes what the file holds already; every request is of an older
\* configuration then.
LEMMA InstallKeeps ==
  ASSUME IInv, Up, Up', worker = "swap", worker' = "idle", ~ahead', reloaded',
         config' = hand.config, clients' = ClientsFor(hand.config),
         channel' = [i \in 1..Len(channel) |-> [channel[i] EXCEPT !.current = FALSE]],
         req' = [r \in Requests |-> [req[r] EXCEPT !.current = FALSE]],
         UNCHANGED <<file, env, saved, breakers>>
  PROVE  IInv'
<1>1. /\ UpdateOK(hand) /\ Valid(hand.config)
      /\ hand.config.server.testMode = config.server.testMode
  BY DEF IInv, HandOK, Busy
<1>2. file = Whole(hand.config) /\ Builds(hand.config)
  BY DEF IInv, DiskOK
<1>3. file.config = hand.config
  BY <1>2 DEF Whole
<1>4. SentOK'
  <2>1. PICK S : channel \in Seq(S) /\ \A u \in S : UpdateOK(u)
    BY DEF IInv, ShapesOK, SentOK
  <2> DEFINE T == {[u EXCEPT !.current = FALSE] : u \in S}
  <2>2. channel' \in Seq(T)
    <3>1. Len(channel) \in Nat /\ \A i \in 1..Len(channel) : channel[i] \in S
      BY <2>1
    <3>2. \A i \in 1..Len(channel) : [channel[i] EXCEPT !.current = FALSE] \in T
      BY <3>1
    <3> HIDE DEF T
    <3> DEFINE n == Len(channel)
    <3>3. \A i \in 1..n : channel'[i] \in T
      BY <3>2
    <3>4. channel' \in [1..n -> T]
      BY <3>3
    <3> QED
      BY <3>1, <3>4
  <2>3. \A v \in T : UpdateOK(v)
    BY <2>1 DEF UpdateOK
  <2> HIDE DEF T
  <2> QED
    BY <2>2, <2>3 DEF SentOK
<1>5. ShapesOK'
  BY <1>1, <1>4 DEF IInv, ShapesOK, UpdateOK
<1>6. EnvironmentOK'
  BY <1>1 DEF IInv, EnvironmentOK
<1>7. HandOK' /\ RestOK'
  BY DEF HandOK, RestOK, Busy
<1>8. Valid(Loaded)'
  <2>1. Loaded = Overridden(hand.config, env) /\ Loaded' = Loaded
    BY <1>3 DEF Loaded
  <2> QED
    BY <2>1, HandAccepted DEF Busy
<1>9. Loaded' = Overridden(config', env')
  BY <1>3 DEF Loaded
<1>10. DiskOK'
  BY <1>8, <1>9 DEF DiskOK
<1>11. ResourcesOK'
  BY <1>2 DEF ResourcesOK
<1>12. RequestsOK'
  <2>1. DOMAIN req' = Requests
    OBVIOUS
  <2>2. ASSUME NEW r \in Requests
        PROVE  /\ DOMAIN req'[r] = {"proxy", "target", "current", "at"}
               /\ RequestOK(req[r])'
    <3>1. DOMAIN req[r] = {"proxy", "target", "current", "at"}
      BY DEF IInv, RequestsOK
    <3>2. /\ DOMAIN req'[r] = {"proxy", "target", "current", "at"}
          /\ req'[r].current = FALSE
      BY <3>1
    <3> QED
      BY <3>2 DEF RequestOK
  <2> QED
    BY <2>1, <2>2 DEF RequestsOK
<1> QED
  BY <1>5, <1>6, <1>7, <1>10, <1>11, <1>12 DEF IInv

\* Either that, or the key manager refuses and the worker gives up.
LEMMA SwapKeeps == ASSUME IInv, Swap PROVE IInv'
<1>1. /\ Up /\ worker = "swap" /\ worker' = "idle"
      /\ UNCHANGED <<file, env, proc, breakers, saved>>
  BY DEF Swap, WorkerAt, GivesUp, Up, host, process
<1>2. CASE /\ config' = hand.config /\ clients' = ClientsFor(hand.config)
           /\ ahead' = FALSE /\ reloaded' = TRUE
           /\ channel' = [i \in 1..Len(channel) |->
                            [channel[i] EXCEPT !.current = FALSE]]
           /\ req' = [r \in Requests |-> [req[r] EXCEPT !.current = FALSE]]
  BY <1>1, <1>2, InstallKeeps DEF Up
<1>3. CASE UNCHANGED <<memory, ahead, channel, req>>
  <2>1. UNCHANGED Outside
    BY <1>1, <1>3 DEF Outside, memory
  <2>2. SentOK' /\ HandOK'
    BY <1>1, <1>3 DEF IInv, ShapesOK, SentOK, HandOK, Busy
  <2>3. Loaded' = Loaded /\ Readable' = Readable
    BY <1>1 DEF Loaded, Readable
  <2>4. DiskOK'
    BY <1>1, <1>3, <2>3 DEF IInv, DiskOK, Up, memory
  <2> QED
    BY <1>1, <2>1, <2>2, <2>4, WorkerKeeps DEF IInv, ShapesOK
<1> QED
  BY <1>2, <1>3 DEF Swap
-----------------------------------------------------------------------------
\* Nothing changes.
LEMMA StutterKeeps == ASSUME IInv, UNCHANGED vars PROVE IInv'
<1>1. UNCHANGED Core /\ UNCHANGED <<channel, req>>
  BY DEF vars, Core, host, process, memory, news
<1>2. SentOK' /\ RequestsOK'
  BY <1>1, RequestsKept DEF IInv, ShapesOK, SentOK, Core
<1>3. CASE Up
  BY <1>1, <1>2, <1>3, CoreKeeps
<1>4. CASE ~Up
  <2>1. ShapesOK' /\ EnvironmentOK' /\ HandOK' /\ RestOK' /\ DiskOK' /\ ResourcesOK'
    BY <1>1, <1>2, <1>4 DEF IInv, ShapesOK, EnvironmentOK, HandOK, RestOK, DiskOK,
       ResourcesOK, Up, Busy, Core
  <2> QED
    BY <1>2, <2>1 DEF IInv
<1> QED
  BY <1>3, <1>4

\* The invariant is inductive.
LEMMA NextIInv == IInv /\ [Next]_vars => IInv'
<1> SUFFICES ASSUME IInv, [Next]_vars PROVE IInv'
  OBVIOUS
<1>1. CASE Start \/ StartFails \/ Stop \/ Operate
  BY <1>1, StartKeeps, DownKeeps, StopKeeps
<1>2. CASE \/ \E edit \in Edits : AddKeys(edit) \/ DeleteKeys(edit)
           \/ \E cfg \in Updates : UpdateConfig(cfg)
  BY <1>2, EditsKeep
<1>3. CASE WorkerStep
  BY <1>3, ReceiveKeeps, TruncateKeeps, WriteKeeps, BuildKeeps, SwapKeeps DEF WorkerStep
<1>4. ASSUME NEW r \in Requests, Draw(r) \/ Connect(r) \/ Finish(r) PROVE IInv'
  BY <1>4, DrawKeeps, ConnectKeeps, FinishKeeps
<1>5. CASE UNCHANGED vars
  BY <1>5, StutterKeeps
<1> QED
  BY <1>1, <1>2, <1>3, <1>4, <1>5 DEF Next

\* It holds of every reachable state.
LEMMA Invariant == Spec => []IInv
BY InitIInv, NextIInv, PTL DEF Spec

\* What the worker has written whole is accepted by the next start in the same
\* environment, for every file, update, edit and crash (admin.rs:738-747,
\* loader.rs:22).
THEOREM SavedFilesLoad == Spec => []SavedIsAccepted
<1>1. IInv => SavedIsAccepted
  BY DEF IInv, DiskOK, SavedIsAccepted, Up
<1> QED
  BY <1>1, Invariant, PTL

\* A restart gives the configuration in use, but for what the environment
\* overrides, unless the last save was torn or could not be installed
\* (admin.rs:747-764).
THEOREM RestartKeeps == Spec => []RestartKeepsConfiguration
<1>1. IInv => RestartKeepsConfiguration
  BY DEF IInv, DiskOK, RestartKeepsConfiguration, Up
<1> QED
  BY <1>1, Invariant, PTL

\* Only a reload, or test_mode, takes a request's client from it, and only a
\* reload its breaker (state.rs:332, state.rs:422-444).
THEOREM WaysFound == Spec => []RequestsFindTheirWay
<1>1. IInv => RequestsFindTheirWay
  BY DEF IInv, RequestsOK, RequestOK, RequestsFindTheirWay
<1> QED
  BY <1>1, Invariant, PTL
-----------------------------------------------------------------------------
\* The parts of TypeOK that IInv does not say.
Served ==
  /\ proc \in {"down", "up", "failed"}
  /\ worker \in {"idle", "save", "write", "build", "swap"}
  /\ Len(channel) \in 0..MaxPending
  /\ \A r \in Requests : req[r].at \in
       {"idle", "drawn", "no client", "guarded", "unguarded"}
  /\ Up => Valid(config) /\ port \notin taken

\* A length within the bound is a number up to it.
LEMMA WithinBound == \A n : n \in 0..MaxPending => n \in Nat /\ n <= MaxPending
BY BoundsAssumption

\* A start takes a port nobody has and a configuration that is valid.
LEMMA StartServes == ASSUME IInv, Served, Start PROVE Served'
<1>1. /\ proc' = "up" /\ config' = Loaded /\ Valid(Loaded)
      /\ UNCHANGED <<taken, channel, worker, req>>
  BY DEF Start, CanStart, host, news
<1>2. port' \in BoundPorts(PortWanted)
  BY DEF Start
<1>3. port' \notin taken
  BY <1>2 DEF BoundPorts, OpenedBy
<1> QED
  BY <1>1, <1>3 DEF Served, Up

\* Whoever stops or is down has no port.
LEMMA DownServes == ASSUME IInv, Served, StartFails \/ Stop \/ Operate PROVE Served'
<1>1. CASE StartFails \/ Operate
  BY <1>1 DEF StartFails, Operate, Served, Up, memory, news
<1>2. CASE Stop
  <2>1. /\ proc' = "down" /\ worker' = "idle" /\ channel' = <<>>
        /\ req' = [r \in Requests |-> NoRequest]
    BY <1>2 DEF Stop
  <2>2. Len(channel') \in 0..MaxPending
    BY <2>1, BoundsAssumption
  <2>3. \A r \in Requests : req'[r].at = "idle"
    BY <2>1 DEF NoRequest
  <2> QED
    BY <2>1, <2>2, <2>3 DEF Served, Up
<1> QED
  BY <1>1, <1>2

\* The worker installs what it has validated.
LEMMA WorkerServes == ASSUME IInv, Served, WorkerStep PROVE Served'
<1>1. PICK S : channel \in Seq(S)
  BY DEF IInv, ShapesOK, SentOK
<1>2. UNCHANGED <<proc, port, taken>>
  BY DEF WorkerStep, Receive, Truncate, Write, Build, Swap, process, host
<1>3. worker' \in {"idle", "save", "write", "build", "swap"}
  BY DEF Served, WorkerStep, Receive, Truncate, Write, Build, Swap, GivesUp
<1>4. Len(channel') \in 0..MaxPending
  <2>1. CASE Receive
    <3>1. channel' = Tail(channel) /\ channel # <<>>
      BY <2>1 DEF Receive
    <3>2. Len(channel') = Len(channel) - 1 /\ Len(channel) \in Nat /\ Len(channel) > 0
      BY <1>1, <3>1
    <3>3. Len(channel) <= MaxPending
      BY Zenon, WithinBound DEF Served
    <3> DEFINE n == Len(channel)
               m == Len(channel')
    <3> HIDE DEF m
    <3>4. m = n - 1 /\ n \in Nat /\ n > 0 /\ n <= MaxPending
      BY <3>2, <3>3 DEF m
    <3> HIDE DEF n
    <3>5. m \in 0..MaxPending
      BY <3>4, BoundsAssumption
    <3> QED
      BY <3>5 DEF m
  <2>2. CASE Swap
    <3>1. \/ channel' = channel
          \/ channel' = [i \in 1..Len(channel) |-> [channel[i] EXCEPT !.current = FALSE]]
      BY <2>2 DEF Swap
    <3>2. Len(channel') = Len(channel)
      BY <1>1, <3>1
    <3> QED
      BY <3>2 DEF Served
  <2>3. CASE Truncate \/ Write \/ Build
    BY <2>3 DEF Truncate, Write, Build, Served
  <2> QED
    BY <2>1, <2>2, <2>3 DEF WorkerStep
<1>5. Up => Valid(config')
  <2>1. CASE config' = config
    BY <2>1 DEF Served
  <2>2. CASE worker = "swap" /\ config' = hand.config
    BY <2>2 DEF IInv, HandOK, Busy
  <2> QED
    BY <2>1, <2>2 DEF WorkerStep, Receive, Truncate, Write, Build, Swap, WorkerAt, memory
<1>6. \A r \in Requests : req'[r].at = req[r].at
  <2>1. CASE req' = req
    BY <2>1
  <2>2. CASE req' = [r \in Requests |-> [req[r] EXCEPT !.current = FALSE]]
    <3>1. \A r \in Requests : DOMAIN req[r] = {"proxy", "target", "current", "at"}
      BY DEF IInv, RequestsOK
    <3> QED
      BY <2>2, <3>1
  <2> QED
    BY <2>1, <2>2 DEF WorkerStep, Receive, Truncate, Write, Build, Swap
<1> QED
  BY <1>2, <1>3, <1>4, <1>5, <1>6 DEF Served, Up

\* Updates are sent while there is room.
LEMMA SendServes ==
  ASSUME IInv, Served, NEW cfg, NEW keys, Send(cfg, keys) PROVE Served'
<1>1. PICK S : channel \in Seq(S)
  BY DEF IInv, ShapesOK, SentOK
<1> DEFINE u == UpdateOf(cfg, keys)
<1>2. /\ channel' = Append(channel, u) /\ Len(channel) < MaxPending
      /\ UNCHANGED <<proc, config, port, taken, worker, req>>
  BY DEF Send, host, process, memory
<1> HIDE DEF u
<1>3. Len(channel') = Len(channel) + 1 /\ Len(channel) \in Nat
  <2>1. channel \in Seq(S \cup {u})
    BY <1>1
  <2> QED
    BY <1>2, <2>1
<1>4. Len(channel') \in 0..MaxPending
  BY <1>2, <1>3, BoundsAssumption
<1> QED
  BY <1>2, <1>4 DEF Served, Up

\* Requests come to one of three ends.
LEMMA RequestServes ==
  ASSUME IInv, Served, NEW r \in Requests, Draw(r) \/ Connect(r) \/ Finish(r)
  PROVE  Served'
<1>1. UNCHANGED <<proc, config, port, taken, worker, channel>>
  BY DEF Draw, Connect, Finish, host, process, memory, news
<1>2. DOMAIN req = Requests /\ \A x \in Requests :
        DOMAIN req[x] = {"proxy", "target", "current", "at"}
  BY DEF IInv, RequestsOK
<1>3. \A p, t : Outcome(p, t) \in {"no client", "guarded", "unguarded"}
  BY DEF Outcome
<1>4. \A x \in Requests : req'[x].at \in
        {"idle", "drawn", "no client", "guarded", "unguarded"}
  <2>1. CASE Draw(r)
    <3>1. PICK q : q.at = "drawn" /\ req' = [req EXCEPT ![r] = q]
      <4>1. PICK i \in 1..Len(config.groups) :
              req' = [req EXCEPT ![r] =
                [proxy |-> config.groups[i].proxy, target |-> config.groups[i].target,
                 current |-> TRUE, at |-> "drawn"]]
        BY <2>1 DEF Draw
      <4> QED
        BY <4>1
    <3> QED
      BY <1>2, <3>1 DEF Served
  <2>2. CASE Connect(r)
    BY <1>2, <1>3, <2>2 DEF Connect, Served
  <2>3. CASE Finish(r)
    BY <1>2, <2>3 DEF Finish, Served, NoRequest
  <2> QED
    BY <2>1, <2>2, <2>3
<1> QED
  BY <1>1, <1>4 DEF Served, Up

\* Together with IInv it is inductive.
LEMMA NextServed == IInv /\ Served /\ [Next]_vars => Served'
<1> SUFFICES ASSUME IInv, Served, [Next]_vars PROVE Served'
  OBVIOUS
<1>1. CASE Start \/ StartFails \/ Stop \/ Operate
  BY <1>1, StartServes, DownServes
<1>2. ASSUME NEW edit \in Edits, AddKeys(edit) \/ DeleteKeys(edit) PROVE Served'
  BY <1>2, SendServes DEF AddKeys, DeleteKeys
<1>3. ASSUME NEW cfg \in Updates, UpdateConfig(cfg) PROVE Served'
  BY <1>3, SendServes DEF UpdateConfig
<1>4. CASE WorkerStep
  BY <1>4, WorkerServes
<1>5. ASSUME NEW r \in Requests, Draw(r) \/ Connect(r) \/ Finish(r) PROVE Served'
  BY <1>5, RequestServes
<1>6. CASE UNCHANGED vars
  BY <1>6 DEF vars, Served, Up, host, process, memory, news
<1> QED
  BY <1>1, <1>2, <1>3, <1>4, <1>5, <1>6 DEF Next

\* Types; a process that serves has a valid configuration, a base client and a
\* port that was free, whatever was loaded, sent and reloaded.
THEOREM DeploymentTypeCorrect == Spec => []TypeOK
<1>1. Init => Served
  <2> SUFFICES ASSUME Init PROVE Served
    OBVIOUS
  <2>1. Len(channel) \in 0..MaxPending
    BY BoundsAssumption DEF Init
  <2>2. \A r \in Requests : req[r].at = "idle"
    BY DEF Init, NoRequest
  <2> QED
    BY <2>1, <2>2 DEF Init, Served, Up
<1>2. IInv /\ Served => TypeOK
  <2>1. \A cfg : None \in ClientsFor(cfg)
    BY DEF ClientsFor
  <2>2. Served => Len(channel) <= MaxPending
    BY Zenon, WithinBound DEF Served
  <2>3. IInv => (proc = "up" => None \in clients)
                /\ (proc # "up" => worker = "idle" /\ channel = <<>>)
    BY <2>1 DEF IInv, RestOK, ResourcesOK, Up
  <2>4. Served => (proc = "up" => Valid(config) /\ port \notin taken)
    BY DEF Served, Up
  <2>5. Served =>
          /\ proc \in {"down", "up", "failed"}
          /\ worker \in {"idle", "save", "write", "build", "swap"}
          /\ \A r \in Requests : req[r].at \in
               {"idle", "drawn", "no client", "guarded", "unguarded"}
    BY DEF Served
  <2> QED
    BY Zenon, <2>2, <2>3, <2>4, <2>5 DEF TypeOK
<1> QED
  BY <1>1, <1>2, InitIInv, NextIInv, NextServed, PTL DEF Spec
-----------------------------------------------------------------------------
\* A nonempty set of numbers has a least element.
LEMMA LeastNumber ==
  ASSUME NEW T \in SUBSET Nat, T # {}
  PROVE  \E m \in T : \A n \in T : m <= n
<1>1. PICK m \in T : \A n \in T : ~ (<<n, m>> \in OpToRel(<, Nat))
  BY NatLessThanWellFounded, WFMin, Zenon
<1>2. \A n \in T : ~ (n < m)
  BY <1>1 DEF OpToRel
<1> QED
  BY <1>2

\* Counting the positions up to each numbers them from 1 without a gap.
LEMMA Ranked ==
  ASSUME NEW m \in Nat, NEW P \in SUBSET (1..m)
  PROVE  LET Rank(p) == Cardinality({q \in P : q <= p})
             c == Cardinality(P)
         IN  /\ c \in Nat
             /\ \A p \in P : Rank(p) \in 1..c
             /\ \A p, q \in P : Rank(p) = Rank(q) => p = q
             /\ \A n \in 1..c : \E p \in P : Rank(p) = n
<1> DEFINE Upto(p) == {q \in P : q <= p}
           Rank(p) == Cardinality(Upto(p))
           c == Cardinality(P)
           f == [p \in P |-> Rank(p)]
<1>1. IsFiniteSet(P) /\ c \in Nat
  <2>1. IsFiniteSet(1..m)
    BY FS_Interval
  <2>2. IsFiniteSet(P)
    BY <2>1, FS_Subset
  <2> QED
    BY <2>2, FS_CardinalityType
<1>2. \A p \in P : IsFiniteSet(Upto(p)) /\ Rank(p) \in Nat /\ Rank(p) <= c
  BY <1>1, FS_Subset, FS_CardinalityType
<1>3. \A p \in P : Rank(p) # 0
  <2>1. \A p \in P : p \in Upto(p)
    OBVIOUS
  <2> QED
    BY <1>2, <2>1, FS_EmptySet
<1>4. ASSUME NEW p \in P, NEW q \in P, p < q PROVE Rank(p) # Rank(q)
  <2>1. Upto(p) \in SUBSET Upto(q) /\ q \in Upto(q) /\ q \notin Upto(p)
    <3>1. p \in Nat /\ q \in Nat /\ \A x \in P : x \in Nat
      OBVIOUS
    <3>2. \A x \in P : x <= p => x <= q
      BY <1>4, <3>1
    <3>3. q <= q /\ ~(q <= p)
      BY <1>4, <3>1
    <3> QED
      BY Zenon, <3>2, <3>3
  <2> HIDE DEF Upto
  <2> QED
    BY <1>2, <2>1, FS_Subset
<1> HIDE DEF Upto
<1>5. \A p, q \in P : Rank(p) = Rank(q) => p = q
  BY <1>4
<1>6. \A p \in P : Rank(p) \in 1..c
  BY <1>1, <1>2, <1>3
<1> HIDE DEF Rank, c
<1>7. f \in Injection(P, 1..c)
  BY <1>5, <1>6 DEF Injection, IsInjective
<1>8. IsFiniteSet(1..c) /\ Cardinality(1..c) = c
  BY <1>1, FS_Interval
<1>9. f \in Surjection(P, 1..c)
  BY <1>7, <1>8, FS_Injection DEF c
<1>10. \A n \in 1..c : \E p \in P : Rank(p) = n
  BY <1>9 DEF Surjection, f
<1> QED
  BY <1>1, <1>5, <1>6, <1>10 DEF c, Rank, Upto

\* Entries are those at the positions, each of them and nothing else.
LEMMA EntriesOf ==
  ASSUME NEW list, IsList(list), NEW P \in SUBSET DOMAIN list
  PROVE  /\ Entries(list, P) \in Seq({list[p] : p \in P})
         /\ ToSet(Entries(list, P)) = {list[p] : p \in P}
<1> DEFINE Rank(p) == Cardinality({q \in P : q <= p})
           c == Cardinality(P)
           at(n) == CHOOSE p \in P : Rank(p) = n
           e == Entries(list, P)
<1>1. /\ c \in Nat
      /\ \A p \in P : Rank(p) \in 1..c
      /\ \A p, q \in P : Rank(p) = Rank(q) => p = q
      /\ \A n \in 1..c : \E p \in P : Rank(p) = n
  <2>1. PICK m \in Nat : P \in SUBSET (1..m)
    <3>1. list \in Seq(ToSet(list))
      BY DEF IsList
    <3> QED
      BY <3>1
  <2> QED
    BY <2>1, Ranked
<1>2. e = [n \in 1..c |-> list[at(n)]]
  BY DEF Entries
<1> HIDE DEF Rank, c, e
<1>3. \A n \in 1..c : at(n) \in P /\ Rank(at(n)) = n
  BY <1>1
<1>4. \A p \in P : at(Rank(p)) = p
  BY <1>1, <1>3
<1> HIDE DEF at
<1>5. e \in Seq({list[p] : p \in P})
  BY <1>1, <1>2, <1>3
<1>6. \A p \in P : \E n \in DOMAIN e : e[n] = list[p]
  BY <1>1, <1>2, <1>4
<1>7. \A n \in DOMAIN e : \E p \in P : e[n] = list[p]
  BY <1>2, <1>3
<1>8. ToSet(e) = {list[p] : p \in P}
  BY <1>6, <1>7 DEF ToSet
<1> QED
  BY <1>5, <1>8 DEF e

\* A list is a list over any set that holds its entries.
LEMMA ListOver ==
  ASSUME NEW S, NEW s \in Seq(S) PROVE IsList(s)
BY DEF IsList, ToSet

\* Every key is mentioned a first time.
LEMMA MentionedFirst ==
  ASSUME NEW list, IsList(list), NEW keys
  PROVE  {list[p] : p \in FirstMentions(list, keys)} = ToSet(list) \ keys
<1>1. DOMAIN list \subseteq Nat
  BY DEF IsList
<1>2. ASSUME NEW k \in ToSet(list), k \notin keys
      PROVE  \E p \in FirstMentions(list, keys) : list[p] = k
  <2> DEFINE T == {p \in DOMAIN list : list[p] = k}
  <2>1. T \in SUBSET Nat /\ T # {}
    BY <1>1 DEF ToSet
  <2>2. PICK p \in T : \A q \in T : p <= q
    BY <2>1, LeastNumber
  <2>3. \A q \in DOMAIN list : q < p => list[q] # list[p]
    BY <1>1, <2>2
  <2> QED
    BY <1>2, <2>2, <2>3 DEF FirstMentions
<1> QED
  BY <1>2 DEF FirstMentions, ToSet

\* Adding adds the keys sent, whatever they repeat.
LEMMA AddedKeys ==
  ASSUME NEW old, IsList(old), NEW new, IsList(new)
  PROVE  /\ IsList(Added(old, new))
         /\ ToSet(Added(old, new)) = ToSet(old) \cup ToSet(new)
<1> DEFINE P == FirstMentions(new, ToSet(old))
           e == Entries(new, P)
           gained == ToSet(new) \ ToSet(old)
<1>1. P \in SUBSET DOMAIN new
  BY DEF FirstMentions
<1>2. e \in Seq(gained) /\ ToSet(e) = gained
  <2>1. {new[p] : p \in P} = gained
    BY MentionedFirst
  <2> HIDE DEF P
  <2>2. /\ Entries(new, P) \in Seq({new[p] : p \in P})
        /\ ToSet(Entries(new, P)) = {new[p] : p \in P}
    BY <1>1, EntriesOf
  <2> QED
    BY <2>1, <2>2
<1> HIDE DEF P, e
<1>3. old \in Seq(ToSet(old))
  BY DEF IsList
<1>4. old \o e \in Seq(ToSet(old) \cup gained)
  BY <1>2, <1>3
<1>5. ToSet(old \o e) = ToSet(old) \cup ToSet(e)
  <2> DEFINE all == old \o e
             n == Len(old)
  <2>1. /\ n \in Nat /\ DOMAIN old = 1..n
        /\ Len(e) \in Nat /\ DOMAIN e = 1..Len(e)
        /\ DOMAIN all = 1..(n + Len(e))
        /\ \A i \in 1..n : all[i] = old[i]
        /\ \A i \in 1..(n + Len(e)) : i > n => all[i] = e[i - n]
    BY <1>2, <1>3
  <2> HIDE DEF all, n
  <2>2. \A i \in DOMAIN all :
          (\E j \in DOMAIN old : all[i] = old[j]) \/ (\E j \in DOMAIN e : all[i] = e[j])
    <3>1. ASSUME NEW i \in DOMAIN all, i > n
          PROVE  i - n \in DOMAIN e /\ all[i] = e[i - n]
      BY <2>1, <3>1
    <3>2. ASSUME NEW i \in DOMAIN all, ~(i > n)
          PROVE  i \in DOMAIN old /\ all[i] = old[i]
      BY <2>1, <3>2
    <3> QED
      BY <3>1, <3>2
  <2>3. \A j \in DOMAIN old : j \in DOMAIN all /\ all[j] = old[j]
    BY <2>1
  <2>4. \A j \in DOMAIN e : j + n \in DOMAIN all /\ all[j + n] = e[j]
    BY <2>1
  <2> QED
    BY <2>2, <2>3, <2>4 DEF ToSet, all
<1> QED
  BY <1>2, <1>4, <1>5, ListOver DEF Added, P, e

\* Deleting removes the keys named and no other.
LEMMA DeletedKeys ==
  ASSUME NEW old, IsList(old), NEW gone
  PROVE  /\ IsList(Deleted(old, gone))
         /\ ToSet(Deleted(old, gone)) = ToSet(old) \ gone
<1> DEFINE P == {p \in DOMAIN old : old[p] \notin gone}
<1>1. {old[p] : p \in P} = ToSet(old) \ gone
  BY DEF ToSet
<1>2. /\ Entries(old, P) \in Seq(ToSet(old) \ gone)
      /\ ToSet(Entries(old, P)) = ToSet(old) \ gone
  BY <1>1, EntriesOf
<1> QED
  BY <1>2, ListOver DEF Deleted
-----------------------------------------------------------------------------
\* A loaded configuration lists what the file lists; so does one restored.
LEMMA SameLists ==
  ASSUME NEW c, NEW d, c.groups = d.groups
  PROVE  (Listed(c) <=> Listed(d)) /\ KeysOf(c) = KeysOf(d)
BY DEF Listed, KeysOf

\* The worker changes test_mode only.
LEMMA RestoredGroups ==
  ASSUME NEW c, Shaped(c) PROVE Restored(c).groups = c.groups
BY SMT DEF Restored, Shaped

\* The default configuration has no groups.
LEMMA DefaultListed == Listed(DefaultConfig)
BY DEF Listed, IsList, ToSet, DefaultConfig

\* The keys of a configuration, group by group.
LEMMA KeysByGroup ==
  ASSUME NEW c, Listed(c)
  PROVE  KeysOf(c) = UNION {ToSet(g.keys) : g \in ToSet(c.groups)}
<1>1. c.groups \in Seq(ToSet(c.groups))
  BY DEF Listed, IsList
<1>2. DOMAIN c.groups = 1..Len(c.groups)
  BY <1>1
<1>3. \A i \in DOMAIN c.groups : c.groups[i].keys \in Seq(ToSet(c.groups[i].keys))
  BY DEF Listed, IsList, ToSet
<1>4. \A i \in DOMAIN c.groups :
        DOMAIN c.groups[i].keys = 1..Len(c.groups[i].keys)
  BY <1>3
<1>5. ASSUME NEW k
      PROVE  k \in KeysOf(c) <=>
               \E i \in DOMAIN c.groups : \E j \in DOMAIN c.groups[i].keys :
                 k = c.groups[i].keys[j]
  BY <1>2, <1>4 DEF KeysOf
<1>6. ASSUME NEW k
      PROVE  k \in UNION {ToSet(g.keys) : g \in ToSet(c.groups)} <=>
               \E i \in DOMAIN c.groups : \E j \in DOMAIN c.groups[i].keys :
                 k = c.groups[i].keys[j]
  BY DEF ToSet
<1> QED
  BY <1>5, <1>6

\* Other keys in one group: no key comes or goes but from that group.
LEMMA WithKeysListed ==
  ASSUME Shaped(config), Listed(config), NEW i \in 1..Len(config.groups),
         NEW keys, IsList(keys), NEW about,
         \A k : k \in about \/ (k \in ToSet(config.groups[i].keys) <=> k \in ToSet(keys))
  PROVE  /\ Listed(WithKeys(i, keys))
         /\ \A k : k \in about \/ (k \in KeysOf(config) <=> k \in KeysOf(WithKeys(i, keys)))
<1> DEFINE old == config.groups
           g == [old[i] EXCEPT !.keys = keys]
           new == [old EXCEPT ![i] = g]
           d == WithKeys(i, keys)
<1>1. d.groups = new
  BY SMT DEF WithKeys, Shaped
<1>2. old \in Seq(ToSet(old))
  BY DEF Listed, IsList
<1>3. i \in DOMAIN old /\ DOMAIN new = DOMAIN old
  BY <1>2
<1>4. DOMAIN old[i] = {"name", "keys", "proxy", "target"}
  BY <1>3 DEF Listed, ToSet
<1>5. DOMAIN g = {"name", "keys", "proxy", "target"} /\ g.keys = keys
  BY <1>4
<1>6. new[i] = g /\ \A j \in DOMAIN old \ {i} : new[j] = old[j]
  BY <1>3
<1>7. IsList(new)
  <2>1. new \in Seq(ToSet(old) \cup {g})
    <3> DEFINE T == ToSet(old) \cup {g}
    <3>1. PICK n \in Nat : DOMAIN old = 1..n
      BY <1>2
    <3>2. old \in [1..n -> T] /\ g \in T
      BY <1>2, <3>1 DEF T, ToSet
    <3> HIDE DEF T, old, g
    <3>3. new \in [1..n -> T]
      BY <3>2
    <3> HIDE DEF new
    <3>4. new \in Seq(T)
      BY <3>1, <3>3
    <3> QED
      BY <3>4 DEF T
  <2> QED
    BY <2>1, ListOver
<1> HIDE DEF g, new, d
<1>8. Listed(d)
  <2>1. ASSUME NEW j \in DOMAIN new
        PROVE  DOMAIN new[j] = {"name", "keys", "proxy", "target"} /\ IsList(new[j].keys)
    BY <1>3, <1>5, <1>6 DEF Listed, ToSet
  <2> QED
    BY <1>1, <1>7, <2>1 DEF Listed, ToSet
<1>9. ASSUME NEW k
      PROVE  k \in about \/ (k \in KeysOf(config) <=> k \in KeysOf(d))
  <2>1. k \in KeysOf(config) <=> \E j \in DOMAIN old : k \in ToSet(old[j].keys)
    BY KeysByGroup DEF ToSet
  <2>2. k \in KeysOf(d) <=> \E j \in DOMAIN new : k \in ToSet(new[j].keys)
    BY <1>1, <1>8, KeysByGroup DEF ToSet
  <2> QED
    BY <1>3, <1>5, <1>6, <2>1, <2>2
<1> QED
  BY <1>8, <1>9 DEF d
-----------------------------------------------------------------------------
\* A current update agrees with the configuration in use on every key it is not
\* about.
About(u) ==
  u.current =>
    \A k : k \in u.keys \/ (k \in KeysOf(config) <=> k \in KeysOf(u.config))

\* Every configuration around is made of lists, and every update sent or in
\* hand changes no more than it is about, as long as it is current.
Lists ==
  /\ Listed(config) /\ Listed(file.config)
  /\ \A i \in DOMAIN channel : Listed(channel[i].config) /\ About(channel[i])
  /\ worker \in Busy => Listed(hand.config) /\ About(hand)

\* An update joins the channel.
LEMMA SendLists ==
  ASSUME IInv, Lists, NEW cfg, Listed(cfg), NEW keys, Send(cfg, keys),
         \A k : k \in keys \/ (k \in KeysOf(config) <=> k \in KeysOf(cfg))
  PROVE  Lists'
<1> DEFINE u == UpdateOf(cfg, keys)
<1>1. /\ channel' = Append(channel, u)
      /\ UNCHANGED <<config, file, worker, hand>>
  BY DEF Send, memory
<1>2. u.config = cfg /\ u.keys = keys
  BY DEF UpdateOf
<1> HIDE DEF u
<1>3. PICK S : channel \in Seq(S)
  BY DEF IInv, ShapesOK, SentOK
<1>4. \A i \in DOMAIN channel' :
        \/ i \in DOMAIN channel /\ channel'[i] = channel[i]
        \/ channel'[i] = u
  <2>1. channel \in Seq(S \cup {u})
    BY <1>3
  <2> QED
    BY <1>1, <2>1
<1>5. Listed(u.config) /\ About(u)
  BY <1>2 DEF About
<1>6. \A i \in DOMAIN channel' : Listed(channel'[i].config) /\ About(channel'[i])
  BY <1>4, <1>5 DEF Lists
<1> QED
  BY <1>1, <1>6 DEF Lists, About

\* The three ways to send an update say what they are about.
LEMMA EditsList ==
  ASSUME IInv, Lists,
         \/ \E edit \in Edits : AddKeys(edit) \/ DeleteKeys(edit)
         \/ \E cfg \in Updates : UpdateConfig(cfg)
  PROVE  Lists'
<1>1. Shaped(config) /\ Listed(config)
  BY DEF IInv, ShapesOK, Lists
<1>2. ASSUME NEW i \in 1..Len(config.groups) PROVE IsList(config.groups[i].keys)
  <2>1. config.groups \in Seq(ToSet(config.groups))
    BY <1>1 DEF Listed, IsList
  <2>2. config.groups[i] \in ToSet(config.groups)
    BY <2>1 DEF ToSet
  <2> QED
    BY <1>1, <2>2 DEF Listed
<1>3. ASSUME NEW edit \in Edits, AddKeys(edit) PROVE Lists'
  <2>1. PICK i \in NamedGroup(edit) :
          Send(WithKeys(i, Added(config.groups[i].keys, edit.keys)), ToSet(edit.keys))
    BY <1>3 DEF AddKeys
  <2> DEFINE old == config.groups[i].keys
             keys == Added(old, edit.keys)
  <2>2. i \in 1..Len(config.groups) /\ IsList(old) /\ IsList(edit.keys)
    BY <1>2, ListsAssumption DEF NamedGroup
  <2>3. IsList(keys) /\ ToSet(keys) = ToSet(old) \cup ToSet(edit.keys)
    BY <2>2, AddedKeys
  <2>4. /\ Listed(WithKeys(i, keys))
        /\ \A k : k \in ToSet(edit.keys)
                  \/ (k \in KeysOf(config) <=> k \in KeysOf(WithKeys(i, keys)))
    <3> HIDE DEF keys
    <3>1. \A k : k \in ToSet(edit.keys) \/ (k \in ToSet(old) <=> k \in ToSet(keys))
      BY <2>3
    <3> QED
      BY <1>1, <2>2, <2>3, <3>1, WithKeysListed
  <2> QED
    BY <2>1, <2>4, SendLists
<1>4. ASSUME NEW edit \in Edits, DeleteKeys(edit) PROVE Lists'
  <2>1. PICK i \in NamedGroup(edit) :
          Send(WithKeys(i, Deleted(config.groups[i].keys, ToSet(edit.keys))),
               ToSet(edit.keys))
    BY <1>4 DEF DeleteKeys
  <2> DEFINE old == config.groups[i].keys
             keys == Deleted(old, ToSet(edit.keys))
  <2>2. i \in 1..Len(config.groups) /\ IsList(old)
    BY <1>2 DEF NamedGroup
  <2>3. IsList(keys) /\ ToSet(keys) = ToSet(old) \ ToSet(edit.keys)
    BY <2>2, DeletedKeys
  <2>4. /\ Listed(WithKeys(i, keys))
        /\ \A k : k \in ToSet(edit.keys)
                  \/ (k \in KeysOf(config) <=> k \in KeysOf(WithKeys(i, keys)))
    <3> HIDE DEF keys
    <3>1. \A k : k \in ToSet(edit.keys) \/ (k \in ToSet(old) <=> k \in ToSet(keys))
      BY <2>3
    <3> QED
      BY <1>1, <2>2, <2>3, <3>1, WithKeysListed
  <2> QED
    BY <2>1, <2>4, SendLists
<1>5. ASSUME NEW cfg \in Updates, UpdateConfig(cfg) PROVE Lists'
  <2>1. Listed(cfg)
    BY ListsAssumption
  <2>2. Send(cfg, KeysOf(config) \cup KeysOf(cfg))
    BY <1>5 DEF UpdateConfig
  <2>3. \A k : k \in KeysOf(config) \cup KeysOf(cfg)
               \/ (k \in KeysOf(config) <=> k \in KeysOf(cfg))
    OBVIOUS
  <2> QED
    BY <2>1, <2>2, <2>3, SendLists
<1> QED
  BY <1>3, <1>4, <1>5

\* What is received is what was sent, but for test_mode.
LEMMA ReceiveLists == ASSUME IInv, Lists, Receive PROVE Lists'
<1> DEFINE update == [Head(channel) EXCEPT !.config = Restored(@)]
<1>1. /\ channel # <<>> /\ channel' = Tail(channel) /\ UNCHANGED <<config, file>>
      /\ \/ hand' = update
         \/ worker' = "idle"
  BY DEF Receive, GivesUp, memory
<1>2. PICK S : channel \in Seq(S) /\ \A u \in S : UpdateOK(u)
  BY DEF IInv, ShapesOK, SentOK
<1>3. /\ UpdateOK(Head(channel)) /\ Head(channel) = channel[1] /\ 1 \in DOMAIN channel
      /\ \A i \in DOMAIN channel' : i + 1 \in DOMAIN channel /\ channel'[i] = channel[i + 1]
  BY <1>1, <1>2
<1>4. Listed(channel[1].config) /\ About(channel[1])
  BY <1>3 DEF Lists
<1>5. /\ update.keys = channel[1].keys /\ update.current = channel[1].current
      /\ update.config = Restored(channel[1].config)
  BY SMT, <1>3 DEF UpdateOK
<1>6. Restored(channel[1].config).groups = channel[1].config.groups
  BY <1>3, RestoredGroups DEF UpdateOK
<1> HIDE DEF update
<1>7. Listed(update.config) /\ KeysOf(update.config) = KeysOf(channel[1].config)
  BY <1>4, <1>5, <1>6, SameLists
<1>8. About(update)
  BY Zenon, <1>4, <1>5, <1>7 DEF About
<1>9. worker' \in Busy => Listed(hand'.config) /\ About(hand)'
  BY <1>1, <1>7, <1>8 DEF About, Busy
<1>10. \A i \in DOMAIN channel' : Listed(channel'[i].config) /\ About(channel'[i])
  BY <1>3 DEF Lists
<1> QED
  BY <1>1, <1>9, <1>10 DEF Lists, About

\* The beginning of a list is a list.
LEMMA BeginningList ==
  ASSUME NEW T, NEW s \in Seq(T), NEW n \in 0..Len(s)
  PROVE  SubSeq(s, 1, n) \in Seq(T)
OBVIOUS

\* The beginning of a configuration is made of lists.
LEMMA PartsListed ==
  ASSUME NEW cfg, Shaped(cfg), Listed(cfg), NEW part \in PartsOf(cfg)
  PROVE  Listed(part)
<1>1. PICK i \in 1..Len(cfg.groups) :
        \E g \in PartsOfGroup(cfg.groups[i]) : part = WithPart(cfg, i, g)
  BY DEF PartsOf
<1>2. PICK g \in PartsOfGroup(cfg.groups[i]) : part = WithPart(cfg, i, g)
  BY <1>1
<1> DEFINE G == ToSet(cfg.groups)
           old == cfg.groups[i]
           begun == SubSeq(cfg.groups, 1, i - 1)
<1>3. cfg.groups \in Seq(G)
  BY DEF Listed, IsList
<1>4. /\ old \in G /\ DOMAIN old = {"name", "keys", "proxy", "target"}
      /\ old.keys \in Seq(ToSet(old.keys))
  <2>1. old \in G
    BY <1>3 DEF ToSet
  <2> QED
    BY <2>1 DEF Listed, IsList
<1>5. DOMAIN g = {"name", "keys", "proxy", "target"} /\ IsList(g.keys)
  <2>1. CASE g \in {old, [old EXCEPT !.target = DefaultTarget]}
    BY <1>4, <2>1 DEF IsList
  <2>2. CASE \E n \in 0..Len(old.keys) :
               g = [old EXCEPT !.keys = SubSeq(@, 1, n), !.proxy = None,
                               !.target = DefaultTarget]
    <3>1. PICK n \in 0..Len(old.keys) :
            g = [old EXCEPT !.keys = SubSeq(@, 1, n), !.proxy = None,
                            !.target = DefaultTarget]
      BY <2>2
    <3>2. DOMAIN g = DOMAIN old /\ g.keys = SubSeq(old.keys, 1, n)
      BY SMT, <1>4, <3>1
    <3>3. SubSeq(old.keys, 1, n) \in Seq(ToSet(old.keys))
      BY <1>4, BeginningList
    <3> QED
      BY <1>4, <3>2, <3>3, ListOver
  <2> QED
    BY <2>1, <2>2 DEF PartsOfGroup
<1>6. begun \in Seq(G)
  <2>1. i - 1 \in 0..Len(cfg.groups)
    BY <1>3
  <2> QED
    BY <1>3, <2>1, BeginningList
<1>7. part.groups = Append(begun, g)
  BY SMT, <1>2 DEF WithPart, Shaped
<1> HIDE DEF begun, old
<1>8. part.groups \in Seq(G \cup {g})
  BY <1>6, <1>7
<1>9. \A x \in ToSet(part.groups) : x \in G \cup {g}
  BY <1>8 DEF ToSet
<1> QED
  BY <1>5, <1>8, <1>9, ListOver DEF Listed

\* Only the file changes, to what is in hand or a part of it.
LEMMA DiskLists == ASSUME IInv, Lists, Truncate \/ Write \/ Build PROVE Lists'
<1>1. /\ UNCHANGED <<config, channel>> /\ worker \in Busy
      /\ worker' = "idle" \/ UNCHANGED hand
  BY DEF Truncate, Write, Build, WorkerAt, GivesUp, memory, Busy
<1>2. file'.config \in {file.config, DefaultConfig, hand.config} \cup PartsOf(hand.config)
  BY DEF Truncate, Write, Build, Torn, Whole, Cut
<1>3. Listed(file'.config)
  <2>1. Listed(hand.config) /\ Shaped(hand.config)
    BY <1>1 DEF Lists, IInv, HandOK, UpdateOK
  <2> QED
    BY <1>2, <2>1, DefaultListed, PartsListed DEF Lists
<1> QED
  BY <1>1, <1>3 DEF Lists, About, Busy

\* Once an update is installed no other is current.
LEMMA SwapLists == ASSUME IInv, Lists, Swap PROVE Lists'
<1>1. worker = "swap" /\ worker' = "idle" /\ UNCHANGED file
  BY DEF Swap, WorkerAt, GivesUp
<1>2. CASE UNCHANGED <<config, channel>>
  BY <1>1, <1>2 DEF Lists, About, Busy
<1>3. CASE /\ config' = hand.config
           /\ channel' = [i \in 1..Len(channel) |-> [channel[i] EXCEPT !.current = FALSE]]
  <2>1. PICK S : channel \in Seq(S) /\ \A u \in S : UpdateOK(u)
    BY DEF IInv, ShapesOK, SentOK
  <2>2. \A i \in 1..Len(channel) : i \in DOMAIN channel /\ UpdateOK(channel[i])
    BY <2>1
  <2>3. \A i \in DOMAIN channel' :
          /\ i \in DOMAIN channel /\ channel'[i].config = channel[i].config
          /\ ~channel'[i].current
    BY <1>3, <2>2 DEF UpdateOK
  <2>4. \A i \in DOMAIN channel' : Listed(channel'[i].config) /\ About(channel[i])'
    BY <2>3 DEF Lists, About
  <2>5. Listed(config')
    BY <1>1, <1>3 DEF Lists, Busy
  <2> QED
    BY <1>1, <2>4, <2>5 DEF Lists, Busy
<1> QED
  BY <1>2, <1>3 DEF Swap, memory

\* A start loads the file; whoever is not up has sent nothing.
LEMMA LifeLists ==
  ASSUME IInv, Lists, Start \/ StartFails \/ Stop \/ Operate PROVE Lists'
<1>1. worker' = "idle" /\ channel' = <<>>
  <2>1. CASE Stop
    BY <2>1 DEF Stop
  <2>2. CASE Start \/ StartFails \/ Operate
    <3>1. worker = "idle" /\ channel = <<>>
      BY <2>2 DEF IInv, RestOK, Up, Start, StartFails, Operate
    <3> QED
      BY <2>2, <3>1 DEF Start, StartFails, Operate, news
  <2> QED
    BY <2>1, <2>2
<1>2. Listed(file'.config)
  <2>1. file'.config = file.config \/ file'.config \in Files
    BY DEF Start, StartFails, Stop, Operate, Whole
  <2> QED
    BY <2>1, ListsAssumption DEF Lists
<1>3. config' \in {config, Loaded, DefaultConfig}
  BY DEF Start, StartFails, Stop, Operate, memory
<1>4. Loaded.groups = file.config.groups
  BY OverriddenFields DEF Loaded, IInv, ShapesOK
<1>5. Listed(config')
  BY <1>3, <1>4, SameLists, DefaultListed DEF Lists
<1> QED
  BY <1>1, <1>2, <1>5 DEF Lists, Busy

\* Together with IInv it is inductive.
LEMMA NextLists == IInv /\ Lists /\ [Next]_vars => Lists'
<1> SUFFICES ASSUME IInv, Lists, [Next]_vars PROVE Lists'
  OBVIOUS
<1>1. CASE Start \/ StartFails \/ Stop \/ Operate
  BY <1>1, LifeLists
<1>2. CASE \/ \E edit \in Edits : AddKeys(edit) \/ DeleteKeys(edit)
           \/ \E cfg \in Updates : UpdateConfig(cfg)
  BY <1>2, EditsList
<1>3. CASE WorkerStep
  BY <1>3, ReceiveLists, DiskLists, SwapLists DEF WorkerStep
<1>4. CASE UNCHANGED <<config, file, channel, worker, hand>>
  BY <1>4 DEF Lists, About
<1>5. CASE \E r \in Requests : Draw(r) \/ Connect(r) \/ Finish(r)
  BY <1>4, <1>5 DEF Draw, Connect, Finish, memory, news
<1>6. CASE UNCHANGED vars
  BY <1>4, <1>6 DEF vars, memory, news
<1> QED
  BY <1>1, <1>2, <1>3, <1>5, <1>6 DEF Next

\* Only the worker changes the configuration of a running process, and an update
\* in its hand that is current agrees with it on every other key.
LEMMA EditStep ==
  IInv /\ Lists /\ [Next]_vars =>
    (proc = "up" /\ proc' = "up" /\ hand.current =>
       \A k \in KeysOf(config) \cup KeysOf(config)' :
         k \in hand.keys \/ (k \in KeysOf(config) <=> k \in KeysOf(config)'))
<1> SUFFICES ASSUME IInv, Lists, [Next]_vars, proc = "up", proc' = "up", hand.current
             PROVE  \A k : k \in hand.keys \/ (k \in KeysOf(config) <=> k \in KeysOf(config)')
  OBVIOUS
<1>1. CASE config' = config
  BY <1>1 DEF KeysOf
<1>2. CASE worker = "swap" /\ config' = hand.config
  <2>1. About(hand)
    BY <1>2 DEF Lists, Busy
  <2>2. KeysOf(config)' = KeysOf(hand.config)
    BY <1>2 DEF KeysOf
  <2> QED
    BY <2>1, <2>2 DEF About
<1>3. CASE Next
  <2>1. CASE Start \/ StartFails \/ Stop \/ Operate
    BY <1>1, <2>1 DEF Start, StartFails, Stop, Operate, memory
  <2>2. CASE \/ \E edit \in Edits : AddKeys(edit) \/ DeleteKeys(edit)
             \/ \E cfg \in Updates : UpdateConfig(cfg)
    BY <1>1, <2>2 DEF AddKeys, DeleteKeys, UpdateConfig, Send, memory
  <2>3. CASE WorkerStep
    BY <1>1, <1>2, <2>3 DEF WorkerStep, Receive, Truncate, Write, Build, Swap,
       WorkerAt, memory
  <2>4. CASE \E r \in Requests : Draw(r) \/ Connect(r) \/ Finish(r)
    BY <1>1, <2>4 DEF Draw, Connect, Finish, memory
  <2> QED
    BY <1>3, <2>1, <2>2, <2>3, <2>4 DEF Next
<1> QED
  BY <1>1, <1>3 DEF vars, memory

\* An edit of the keys is undone by an update made from an older copy of the
\* configuration, and in no other way (admin.rs:706).
THEOREM EditsKept == Spec => EditsLostOnlyByOverlap
<1>1. Init => Lists
  <2> SUFFICES ASSUME Init PROVE Lists
    OBVIOUS
  <2>1. Listed(file.config)
    BY ListsAssumption, DefaultListed DEF Init, Whole, Absent
  <2> QED
    BY <2>1, DefaultListed DEF Init, Lists, Busy
<1> QED
  BY <1>1, InitIInv, NextIInv, NextLists, EditStep, PTL DEF Spec, EditsLostOnlyByOverlap
=============================================================================
