----------------------------- MODULE Deployment -----------------------------
(***************************************************************************)
(* One installation of the proxy over its life: starts, crashes and stops  *)
(* (main.rs, lib.rs), the configuration file it reads and overwrites       *)
(* (config/loader.rs), the parts of AppState that a configuration          *)
(* determines (state.rs), and the updates administrators send to the       *)
(* worker (admin.rs).  The locks on the way are in ConfigReload.           *)
(***************************************************************************)
EXTENDS Configuration, SequencesExt

CONSTANTS
  Requests,            \* proxied requests
  Files,               \* configurations an operator may write by hand
  Updates,             \* configurations sent to PUT /admin/config
  Edits,               \* [group, keys] sent to POST and DELETE /admin/keys
  Envs,                \* environments: [redis, port, threshold, option]
  Ports,               \* ports another process may take
  Ephemeral,           \* ports the system hands out when asked for any
  MaxPending           \* bound of the model: updates in the channel

ASSUME BoundsAssumption == MaxPending \in Nat /\ Ports \subseteq Nat

\* Configurations have the shape of AppConfig.
ASSUME ShapeAssumption == \A cfg \in Files \cup Updates : Shaped(cfg)

\* Its groups are a Vec, and so are the keys of a group and of an edit.
IsList(s) == s \in Seq(ToSet(s))

Listed(cfg) ==
  /\ IsList(cfg.groups)
  /\ \A g \in ToSet(cfg.groups) :
       DOMAIN g = {"name", "keys", "proxy", "target"} /\ IsList(g.keys)

ASSUME ListsAssumption ==
  /\ \A cfg \in Files \cup Updates : Listed(cfg)
  /\ \A edit \in Edits : IsList(edit.keys)

VARIABLES
  file,                \* config.yaml
  env,                 \* the variables load_config looks at, and --port (option)
  taken,               \* ports other processes listen on
  proc,                \* "down", "up", or "failed" (exit status 1)
  port,                \* the port listened on
  config,              \* AppState.config
  clients,             \* AppState.http_clients: the proxies that have one
  breakers,            \* AppState.circuit_breakers: the targets that have one
  redis,               \* AppState.redis_pool
  channel,             \* updates sent and not received
  worker,              \* where the background worker is
  hand,                \* the update it works on
  req,                 \* request -> what its key's group said when it was drawn
  ahead,               \* history: the file has what was not installed (yet)
  saved,               \* history: the file is one the worker wrote
  reloaded             \* history: an update was installed since the start

process == <<proc, port, breakers, redis>>
host    == <<env, taken>>
memory  == <<config, clients, reloaded>>
news    == <<channel, worker, hand>>
vars    == <<file, host, process, memory, news, req, ahead, saved>>

\* An update on its way: the configuration sent, the keys it is about, and
\* (history) whether it was made from the configuration in use now.
UpdateOf(cfg, keys) == [config |-> cfg, keys |-> keys, current |-> TRUE]

NoUpdate == UpdateOf(DefaultConfig, {})

\* What is on disk: no file, one that does not parse, the beginning of a
\* configuration, or all of it.
Absent     == [is |-> "absent", config |-> DefaultConfig]
Torn       == [is |-> "torn", config |-> DefaultConfig]
Cut(part)  == [is |-> "cut", config |-> part]
Whole(cfg) == [is |-> "whole", config |-> cfg]

\* The beginnings of a group that parse: keys come before proxy and target, and
\* what is missing, or cut in the middle, takes its default.
PartsOfGroup(g) ==
  {g, [g EXCEPT !.target = DefaultTarget]} \cup
  {[g EXCEPT !.keys = SubSeq(@, 1, n), !.proxy = None, !.target = DefaultTarget] :
     n \in 0..Len(g.keys)}

WithPart(cfg, i, g) ==
  [cfg EXCEPT !.groups = Append(SubSeq(@, 1, i - 1), g),
              !.redis = None, !.threshold = None]

\* The beginnings of a configuration that may load: the server comes first, then
\* the groups, of which one is needed, then everything else.
PartsOf(cfg) ==
  UNION {{WithPart(cfg, i, g) : g \in PartsOfGroup(cfg.groups[i])} :
           i \in 1..Len(cfg.groups)}

\* A request before its key is drawn.
NoRequest == [proxy |-> None, target |-> None, current |-> TRUE, at |-> "idle"]
-----------------------------------------------------------------------------
\* create_proxy_from_scheme knows these; the library makes a proxy of each.
ProxySchemes == {"http", "https", "socks5"}

\* build_http_clients refuses any other scheme: should_fail_fast stops at it.
\* test_mode builds no client for a proxy.
Builds(cfg) ==
  \/ cfg.server.testMode
  \/ \A proxy \in ProxiesOf(cfg) : Scheme[proxy] \in ProxySchemes

ClientsFor(cfg) ==
  IF cfg.server.testMode THEN {None} ELSE {None} \cup ProxiesOf(cfg)

\* The port serve_command ends up with: ten ports are tried, counted in a u16;
\* whoever asks for port 0 is given any free one.
Candidate(start, i) == (start + i) % 65536

OpenedBy(candidate) ==
  (IF candidate = 0 THEN Ephemeral ELSE {candidate}) \ taken

BoundPorts(start) ==
  UNION {OpenedBy(Candidate(start, i)) :
           i \in {n \in 0..9 : \A m \in 0..(n - 1) : OpenedBy(Candidate(start, m)) = {}}}
-----------------------------------------------------------------------------
Init ==
  /\ file \in {Whole(cfg) : cfg \in Files} \cup {Absent} /\ env \in Envs /\ taken = {}
  /\ proc = "down" /\ port = None
  /\ config = DefaultConfig /\ clients = {} /\ breakers = {} /\ redis = None
  /\ channel = <<>> /\ worker = "idle" /\ hand = NoUpdate
  /\ req = [r \in Requests |-> NoRequest]
  /\ ahead = FALSE /\ saved = FALSE /\ reloaded = FALSE

\* What load_config would return now, if the file can be read.
Readable == file.is # "torn"
Loaded   == Overridden(file.config, env)

\* The port of the command line, or that of the configuration.
PortWanted == IF env.option # None THEN env.option ELSE Loaded.server.port

\* Mutant: the configuration is loaded but not validated.
CanStartUnchecked ==
  /\ Readable /\ Builds(Loaded)
  /\ BoundPorts(PortWanted) # {}

\* load_config accepts, the clients can be built and a port is free.
CanStart ==
  /\ Readable /\ Valid(Loaded) /\ Builds(Loaded)
  /\ BoundPorts(PortWanted) # {}

\* run and serve_command as far as the first request.
Start ==
  /\ proc # "up" /\ CanStart
  /\ \E p \in BoundPorts(PortWanted) : port' = p
  /\ proc' = "up"
  /\ config' = Loaded /\ clients' = ClientsFor(Loaded)
  /\ breakers' = TargetsOf(Loaded) /\ redis' = Loaded.redis
  /\ ahead' = FALSE /\ reloaded' = FALSE
  /\ UNCHANGED <<file, host, news, req, saved>>

\* Or a step of it fails: those that CanStart names, or the tokenizer, Redis, the
\* HTTP library, or a bind that fails for another reason than a port in use.
StartFails ==
  /\ proc = "down" /\ proc' = "failed"
  /\ UNCHANGED <<file, host, port, breakers, redis, memory, news, req, ahead,
                 saved>>

\* A crash, or the end of a graceful shutdown: the runtime drops the worker
\* at the await it stands at, and what is in the channel with it.
Stop ==
  /\ proc = "up" /\ proc' = "down"
  /\ port' = None
  /\ config' = DefaultConfig /\ clients' = {} /\ breakers' = {} /\ redis' = None
  /\ channel' = <<>> /\ worker' = "idle" /\ hand' = NoUpdate
  /\ req' = [r \in Requests |-> NoRequest]
  /\ reloaded' = FALSE
  /\ UNCHANGED <<file, host, ahead, saved>>

\* The operator edits the file, the environment or the machine meanwhile.
Operate ==
  /\ proc # "up" /\ proc' = "down"
  /\ \/ /\ \E cfg \in Files : file' = Whole(cfg)
        /\ saved' = FALSE /\ ahead' = FALSE
        /\ UNCHANGED host
     \/ /\ env' \in Envs /\ taken' \in {{}, Ports}
        /\ UNCHANGED <<file, ahead, saved>>
  /\ UNCHANGED <<port, breakers, redis, memory, news, req>>
-----------------------------------------------------------------------------
\* create_and_send_new_config.
Send(cfg, keys) ==
  /\ proc = "up" /\ Len(channel) < MaxPending
  /\ channel' = Append(channel, UpdateOf(cfg, keys))
  /\ UNCHANGED <<file, host, process, memory, worker, hand, req, ahead, saved>>

\* The group an edit names: find takes the first.
NamedGroup(edit) ==
  {i \in 1..Len(config.groups) : config.groups[i].name = edit.group}

WithKeys(i, keys) == [config EXCEPT !.groups[i].keys = keys]

\* The entries of a list at some of its positions, in their order.
Entries(list, positions) ==
  [n \in 1..Cardinality(positions) |->
     list[CHOOSE p \in positions : Cardinality({q \in positions : q <= p}) = n]]

\* Where a list first mentions a key that is not among these.
FirstMentions(list, keys) ==
  {p \in DOMAIN list :
     list[p] \notin keys /\ \A q \in DOMAIN list : q < p => list[q] # list[p]}

\* Mutant: the new keys take the place of the old ones.
AddedReplacing(old, new) == Entries(new, FirstMentions(new, {}))

\* Keys that the group lists already are passed over; other groups are not
\* looked at, which validation does later.
Added(old, new) == old \o Entries(new, FirstMentions(new, ToSet(old)))

\* retain: the keys that the edit does not name.
Deleted(old, gone) == Entries(old, {p \in DOMAIN old : old[p] \notin gone})

AddKeys(edit) ==
  \E i \in NamedGroup(edit) :
    Send(WithKeys(i, Added(config.groups[i].keys, edit.keys)), ToSet(edit.keys))

DeleteKeys(edit) ==
  \E i \in NamedGroup(edit) :
    Send(WithKeys(i, Deleted(config.groups[i].keys, ToSet(edit.keys))),
         ToSet(edit.keys))

\* What is sent replaces everything, so it is about every key.
UpdateConfig(cfg) == Send(cfg, KeysOf(config) \cup KeysOf(cfg))
-----------------------------------------------------------------------------
WorkerAt(place) == proc = "up" /\ worker = place

GivesUp == worker' = "idle" /\ hand' = NoUpdate

\* Mutant: the update's own test_mode is used.
RestoredAsSent(cfg) == cfg

\* The worker puts the process's test_mode into what it received.
Restored(cfg) == [cfg EXCEPT !.server.testMode = config.server.testMode]

Receive ==
  /\ WorkerAt("idle") /\ channel # <<>>
  /\ channel' = Tail(channel)
  /\ LET update == [Head(channel) EXCEPT !.config = Restored(@)]
     IN  IF Valid(update.config) THEN worker' = "save" /\ hand' = update
                                 ELSE GivesUp
  /\ UNCHANGED <<file, host, process, memory, req, ahead, saved>>

\* tokio::fs::write truncates the file, then writes it, some of it before the
\* rest; each may fail, or be the last thing the process does.
Truncate ==
  /\ WorkerAt("save")
  /\ \/ worker' = "write" /\ file' = Torn /\ UNCHANGED hand
     \/ GivesUp /\ UNCHANGED file
  /\ UNCHANGED <<host, process, memory, channel, req, ahead, saved>>

Write ==
  /\ WorkerAt("write")
  /\ \/ /\ worker' = "build" /\ file' = Whole(hand.config)
        /\ ahead' = TRUE /\ saved' = TRUE
        /\ UNCHANGED hand
     \/ /\ file = Torn
        /\ \E part \in PartsOf(hand.config) : file' = Cut(part)
        /\ ahead' = TRUE /\ saved' = FALSE
        /\ UNCHANGED <<worker, hand>>
     \/ GivesUp /\ UNCHANGED <<file, ahead, saved>>
  /\ UNCHANGED <<host, process, memory, channel, req>>

\* The HTTP library may fail where the configuration gives no reason to.
Build ==
  /\ WorkerAt("build")
  /\ \/ Builds(hand.config) /\ worker' = "swap" /\ UNCHANGED hand
     \/ GivesUp
  /\ UNCHANGED <<file, host, process, memory, channel, req, ahead, saved>>

\* Mutant: the configuration itself is not replaced.
SwapClientsOnly ==
  /\ WorkerAt("swap") /\ GivesUp
  /\ clients' = ClientsFor(hand.config)
  /\ ahead' = FALSE /\ reloaded' = TRUE
  /\ UNCHANGED <<file, host, process, config, channel, req, saved>>

\* Mutant: the clients are built, but not put in place.
SwapKeepingClients ==
  /\ WorkerAt("swap") /\ GivesUp
  /\ config' = hand.config
  /\ ahead' = FALSE /\ reloaded' = TRUE
  /\ req' = [r \in Requests |-> [req[r] EXCEPT !.current = FALSE]]
  /\ UNCHANGED <<file, host, process, clients, channel, saved>>

\* The three locks are held: KeyManager::reload, which may fail with Redis,
\* then configuration and clients.  Pool and breakers stay as they are.
Swap ==
  /\ WorkerAt("swap") /\ GivesUp
  /\ \/ /\ config' = hand.config /\ clients' = ClientsFor(hand.config)
        /\ ahead' = FALSE /\ reloaded' = TRUE
        /\ channel' = [i \in 1..Len(channel) |->
                         [channel[i] EXCEPT !.current = FALSE]]
        /\ req' = [r \in Requests |-> [req[r] EXCEPT !.current = FALSE]]
     \/ redis # None /\ UNCHANGED <<memory, ahead, channel, req>>
  /\ UNCHANGED <<file, host, process, saved>>
-----------------------------------------------------------------------------
\* A key is drawn, with the proxy and the target of its group.
Draw(r) ==
  /\ proc = "up" /\ req[r].at = "idle"
  /\ \E i \in 1..Len(config.groups) :
       /\ config.groups[i].keys # <<>>
       /\ req' = [req EXCEPT ![r] =
            [proxy |-> config.groups[i].proxy, target |-> config.groups[i].target,
             current |-> TRUE, at |-> "drawn"]]
  /\ UNCHANGED <<file, host, process, memory, news, ahead, saved>>

\* get_client, then get_circuit_breaker: without the one the request fails
\* with an internal error, without the other it is sent unguarded.
Outcome(proxy, target) ==
  IF proxy \notin clients THEN "no client"
  ELSE IF target \notin breakers THEN "unguarded" ELSE "guarded"

Connect(r) ==
  /\ req[r].at = "drawn"
  /\ req' = [req EXCEPT ![r].at = Outcome(req[r].proxy, req[r].target)]
  /\ UNCHANGED <<file, host, process, memory, news, ahead, saved>>

Finish(r) ==
  /\ req[r].at \notin {"idle", "drawn"}
  /\ req' = [req EXCEPT ![r] = NoRequest]
  /\ UNCHANGED <<file, host, process, memory, news, ahead, saved>>
-----------------------------------------------------------------------------
WorkerStep == Receive \/ Truncate \/ Write \/ Build \/ Swap

Next ==
  \/ Start \/ StartFails \/ Stop \/ Operate
  \/ \E edit \in Edits : AddKeys(edit) \/ DeleteKeys(edit)
  \/ \E cfg \in Updates : UpdateConfig(cfg)
  \/ WorkerStep
  \/ \E r \in Requests : Draw(r) \/ Connect(r) \/ Finish(r)

Spec == Init /\ [][Next]_vars
-----------------------------------------------------------------------------
(* Properties *)

\* Types; besides, a process that serves has a valid configuration, a base
\* client and a port nobody else had.
TypeOK ==
  /\ proc \in {"down", "up", "failed"}
  /\ worker \in {"idle", "save", "write", "build", "swap"}
  /\ Len(channel) <= MaxPending
  /\ \A r \in Requests : req[r].at \in
       {"idle", "drawn", "no client", "guarded", "unguarded"}
  /\ proc = "up" => Valid(config) /\ None \in clients /\ port \notin taken
  /\ proc # "up" => worker = "idle" /\ channel = <<>>

\* What the worker has written whole, load_config accepts at the next start in
\* the same environment (loader.rs:22, admin.rs:738-747): a restart refuses the
\* configuration only if a write of it was cut short.
SavedIsAccepted ==
  proc = "up" /\ saved /\ Readable => Valid(Loaded)

\* Once the worker is at rest a restart gives the configuration in use, but for
\* the settings that the environment overrides, unless the write of the file was
\* cut short or the update in it was not installed (admin.rs:747-764).
RestartKeepsConfiguration ==
  proc = "up" /\ worker = "idle" /\ Readable /\ ~ahead =>
    Loaded = Overridden(config, env)

\* A request misses its client only when a reload came after its key was drawn
\* or in test_mode: a reload brings the clients with the proxies (admin.rs:750-764).
\* It goes out unguarded only after a reload: every target of the configuration a
\* process started with has a breaker (state.rs:332, state.rs:422-444).
RequestsFindTheirWay ==
  \A r \in Requests :
    /\ req[r].at = "no client" => ~req[r].current \/ config.server.testMode
    /\ req[r].at = "unguarded" => reloaded

\* Installing an update changes no key but those the update is about, unless
\* another one was installed after the update's copy of the configuration was
\* made (admin.rs:706): no edit is undone in any other way.
EditsLostOnlyByOverlap ==
  [][proc = "up" /\ proc' = "up" /\ hand.current =>
       \A k \in KeysOf(config) \cup KeysOf(config)' :
         k \in hand.keys \/ (k \in KeysOf(config) <=> k \in KeysOf(config)')]_vars
=============================================================================
