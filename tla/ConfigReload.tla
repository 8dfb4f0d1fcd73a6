---------------------------- MODULE ConfigReload ----------------------------
(***************************************************************************)
(* How a configuration update travels: an administrator's request clones   *)
(* and edits the configuration and broadcasts it (admin.rs), the worker    *)
(* (lib.rs) receives it, saves it and swaps it in under three write locks, *)
(* while proxied requests and health checks take the same locks.           *)
(*                                                                         *)
(* A task's pc names the await it stands at.  A step that goes on to ask   *)
(* for a lock enters its queue at once; the next step of the task needs    *)
(* the lock granted.                                                       *)
(***************************************************************************)
EXTENDS FairRwLock, SequencesExt

CONSTANTS
  Proxies,             \* requests in the proxy loop
  Watchers,            \* detailed_health requests
  Editors,             \* authenticated requests that change the configuration
  Worker,              \* the background worker
  NoConfig,            \* no configuration in hand, or none that parses
  ValidConfigs,        \* the configurations validate_config accepts
  ChannelSize          \* capacity of the broadcast channel (16 in AppState::new)

ASSUME ChannelSizeAssumption == ChannelSize \in Nat \ {0}
ASSUME ConfigsAssumption == ValidConfigs \subseteq SUBSET Editors
ASSUME TasksAssumption ==
  /\ Proxies \cap Watchers = {} /\ Proxies \cap Editors = {}
  /\ Watchers \cap Editors = {}
  /\ Worker \notin Proxies \cup Watchers \cup Editors

VARIABLES
  queue,               \* lock -> its holders and waiters (FairRwLock)
  pc,                  \* task -> where it is
  hand,                \* task -> the configuration it has read or made
  channel,             \* updates sent and not received
  lagged,              \* an update was overwritten before it was received
  file,                \* the configuration on disk
  config,              \* AppState.config
  clients,             \* the configuration http_clients was built from
  keys,                \* the configuration the key manager was built from
  accepted,            \* history: updates answered with 202, in order
  taken                \* history: updates received by the worker, in order

state == <<config, clients, keys>>
news  == <<channel, lagged, accepted, taken>>
vars  == <<queue, pc, hand, news, file, state>>

Locks    == {"config", "clients", "keys"}
Requests == Proxies \cup Watchers \cup Editors
Tasks    == Requests \cup {Worker}

\* A configuration is reduced to the edits it contains.
Configuration == SUBSET Editors

Labels == {"away", "route", "select", "connect", "send", "report", "summarise",
           "describe", "authorise", "clone", "broadcast", "done", "receive",
           "check", "save", "build", "lockConfig", "lockClients", "lockKeys",
           "swap", "ended"}

Entries == [task : Tasks, mode : {"read", "write"}, at : Labels]

TypeOK ==
  /\ DOMAIN queue = Locks
  /\ \A l \in Locks :
       /\ DOMAIN queue[l] \subseteq Entries
       /\ queue[l] \in [DOMAIN queue[l] -> SUBSET DOMAIN queue[l]]
  /\ pc \in [Tasks -> Labels]
  /\ hand \in [Tasks -> Configuration \cup {NoConfig}]
  /\ channel \in Seq(Configuration) /\ Len(channel) <= ChannelSize
  /\ lagged \in BOOLEAN
  /\ {config, clients, keys} \subseteq Configuration
  /\ file \in Configuration \cup {NoConfig}
  /\ accepted \in Seq(Configuration) /\ taken \in Seq(Configuration)

Init ==
  /\ queue = [l \in Locks |-> Unlocked]
  /\ pc = [t \in Tasks |-> IF t = Worker THEN "receive" ELSE "away"]
  /\ hand = [t \in Tasks |-> NoConfig]
  /\ channel = <<>> /\ lagged = FALSE
  /\ accepted = <<>> /\ taken = <<>>
  /\ config \in ValidConfigs
  /\ file = config /\ clients = config /\ keys = config
-----------------------------------------------------------------------------
Goes(t, label) == pc' = [pc EXCEPT ![t] = label]

\* t is at this await and the lock it awaits is its own.
Has(t, label, lock) == pc[t] = label /\ ~Waits(queue[lock], t)

\* The queues after t has dropped its guards on these locks.
Freed(t, locks) ==
  [l \in Locks |-> IF l \in locks THEN Drop(queue[l], EntriesOf(queue[l], t))
                                  ELSE queue[l]]

\* The queues q after somebody has asked for the lock.
Asked(q, lock, entry) == [q EXCEPT ![lock] = Ask(@, entry)]

\* A request's early return, its error or its client's departure: what it
\* holds is dropped, and so is its place in a queue.
Depart(t) ==
  /\ pc[t] \notin {"away", "done"}
  /\ Goes(t, IF t \in Editors THEN "done" ELSE "away")
  /\ queue' = Freed(t, Locks)
  /\ hand' = [hand EXCEPT ![t] = NoConfig]
  /\ UNCHANGED <<news, file, state>>
-----------------------------------------------------------------------------
\* The proxy loop.  proxy_handler reads the configuration like Route does.
Arrive(p) ==
  /\ pc[p] = "away"
  /\ Goes(p, "route")
  /\ queue' = Asked(queue, "config", Reader(p, "route"))
  /\ UNCHANGED <<hand, news, file, state>>

Route(p) ==
  /\ Has(p, "route", "config")
  /\ Goes(p, "select")
  /\ queue' = Asked(Freed(p, {"config"}), "keys", Reader(p, "select"))
  /\ UNCHANGED <<hand, news, file, state>>

\* Mutant: the guard on the key manager lives on while the request goes out.
SelectKeepsGuard(p) ==
  /\ Has(p, "select", "keys")
  /\ Goes(p, "connect")
  /\ queue' = Asked(queue, "clients", Reader(p, "connect"))
  /\ UNCHANGED <<hand, news, file, state>>

Select(p) ==
  /\ Has(p, "select", "keys")
  /\ Goes(p, "connect")
  /\ queue' = Asked(Freed(p, {"keys"}), "clients", Reader(p, "connect"))
  /\ UNCHANGED <<hand, news, file, state>>

\* get_client; the circuit breakers are never replaced.
Connect(p) ==
  /\ Has(p, "connect", "clients")
  /\ Goes(p, "send")
  /\ queue' = Freed(p, {"clients"})
  /\ UNCHANGED <<hand, news, file, state>>

\* The upstream answered, and the response goes to the client.
Answer(p) ==
  /\ pc[p] = "send"
  /\ Goes(p, "away")
  /\ UNCHANGED <<queue, hand, news, file, state>>

\* The upstream refused, and the key will be reported.
Refuse(p) ==
  /\ pc[p] = "send"
  /\ Goes(p, "report")
  /\ queue' = Asked(queue, "keys", Writer(p, "report"))
  /\ UNCHANGED <<hand, news, file, state>>

Report(p) ==
  /\ Has(p, "report", "keys")
  /\ Goes(p, "route")
  /\ queue' = Asked(Freed(p, {"keys"}), "config", Reader(p, "route"))
  /\ UNCHANGED <<hand, news, file, state>>
-----------------------------------------------------------------------------
\* detailed_health: the key manager first, the configuration inside.
Watch(w) ==
  /\ pc[w] = "away"
  /\ Goes(w, "summarise")
  /\ queue' = Asked(queue, "keys", Reader(w, "summarise"))
  /\ UNCHANGED <<hand, news, file, state>>

Summarise(w) ==
  /\ Has(w, "summarise", "keys")
  /\ Goes(w, "describe")
  /\ hand' = [hand EXCEPT ![w] = keys]
  /\ queue' = Asked(queue, "config", Reader(w, "describe"))
  /\ UNCHANGED <<news, file, state>>

Describe(w) ==
  /\ Has(w, "describe", "config")
  /\ Goes(w, "away")
  /\ hand' = [hand EXCEPT ![w] = NoConfig]
  /\ queue' = Freed(w, Locks)
  /\ UNCHANGED <<news, file, state>>
-----------------------------------------------------------------------------
\* admin_auth_middleware reads the configuration and keeps the guard.
Knock(e) ==
  /\ pc[e] = "away"
  /\ Goes(e, "authorise")
  /\ queue' = Asked(queue, "config", Reader(e, "authorise"))
  /\ UNCHANGED <<hand, news, file, state>>

Authorise(e) ==
  /\ Has(e, "authorise", "config")
  /\ Goes(e, "clone")
  /\ queue' = Asked(queue, "config", Reader(e, "clone"))
  /\ UNCHANGED <<hand, news, file, state>>

\* What add_keys, delete_keys and update_config make of the configuration.
Edits(e, cfg) == {cfg \cup {e}, {e}} \cup {cfg \ {x} : x \in cfg}

\* create_and_send_new_config: a clone is made under a second guard.
Clone(e) ==
  /\ Has(e, "clone", "config")
  /\ Goes(e, "broadcast")
  /\ \E cfg \in Edits(e, config) : hand' = [hand EXCEPT ![e] = cfg]
  /\ queue' = [queue EXCEPT !["config"] = Drop(@, {Reader(e, "clone")})]
  /\ UNCHANGED <<news, file, state>>

\* Mutant: a channel without a limit.
PushedUnbounded(msgs, cfg) == Append(msgs, cfg)

\* broadcast::Sender::send: a full channel loses its oldest message.
Pushed(msgs, cfg) ==
  Append(IF Len(msgs) = ChannelSize THEN Tail(msgs) ELSE msgs, cfg)

\* The update is answered with 202, or with an error when nobody receives.
Send(e) ==
  /\ pc[e] = "broadcast"
  /\ Goes(e, "done")
  /\ IF pc[Worker] = "ended"
     THEN UNCHANGED <<channel, lagged, accepted>>
     ELSE /\ channel' = Pushed(channel, hand[e])
          /\ lagged' = (lagged \/ Len(channel) = ChannelSize)
          /\ accepted' = Append(accepted, hand[e])
  /\ hand' = [hand EXCEPT ![e] = NoConfig]
  /\ queue' = Freed(e, {"config"})
  /\ UNCHANGED <<taken, file, state>>
-----------------------------------------------------------------------------
\* The worker gives the update up and returns to the channel.
GivesUp ==
  /\ Goes(Worker, "receive")
  /\ hand' = [hand EXCEPT ![Worker] = NoConfig]
  /\ queue' = Freed(Worker, Locks)

Receive ==
  /\ pc[Worker] = "receive" /\ ~lagged /\ channel # <<>>
  /\ Goes(Worker, "check")
  /\ hand' = [hand EXCEPT ![Worker] = Head(channel)]
  /\ channel' = Tail(channel)
  /\ taken' = Append(taken, Head(channel))
  /\ queue' = Asked(queue, "config", Reader(Worker, "check"))
  /\ UNCHANGED <<lagged, accepted, file, state>>

\* Mutant: the worker goes on with what is left in the channel.
LagIgnored ==
  /\ pc[Worker] = "receive" /\ lagged
  /\ lagged' = FALSE
  /\ UNCHANGED <<queue, pc, hand, channel, accepted, taken, file, state>>

\* recv reports the lag and the worker terminates.
LagEnds ==
  /\ pc[Worker] = "receive" /\ lagged
  /\ Goes(Worker, "ended")
  /\ UNCHANGED <<queue, hand, news, file, state>>

\* Mutant: what an administrator sends is taken as it is.
CheckAnything ==
  /\ Has(Worker, "check", "config")
  /\ Goes(Worker, "save")
  /\ queue' = Freed(Worker, {"config"})
  /\ UNCHANGED <<hand, news, file, state>>

\* The test_mode flag is read, then the update is validated.
Check ==
  /\ Has(Worker, "check", "config")
  /\ IF hand[Worker] \in ValidConfigs
     THEN /\ Goes(Worker, "save")
          /\ queue' = Freed(Worker, {"config"})
          /\ UNCHANGED hand
     ELSE GivesUp
  /\ UNCHANGED <<news, file, state>>

\* save_config.  A write that fails may leave a torn file.
Save ==
  /\ pc[Worker] = "save"
  /\ \/ /\ file' = hand[Worker]
        /\ Goes(Worker, "build")
        /\ UNCHANGED <<queue, hand>>
     \/ GivesUp /\ file' \in {file, NoConfig}
  /\ UNCHANGED <<news, state>>

\* build_http_clients, then the first of the three write locks.
Build ==
  /\ pc[Worker] = "build"
  /\ \/ /\ Goes(Worker, "lockConfig")
        /\ queue' = Asked(queue, "config", Writer(Worker, "lockConfig"))
        /\ UNCHANGED hand
     \/ GivesUp
  /\ UNCHANGED <<news, file, state>>

LockConfig ==
  /\ Has(Worker, "lockConfig", "config")
  /\ Goes(Worker, "lockClients")
  /\ queue' = Asked(queue, "clients", Writer(Worker, "lockClients"))
  /\ UNCHANGED <<hand, news, file, state>>

LockClients ==
  /\ Has(Worker, "lockClients", "clients")
  /\ Goes(Worker, "lockKeys")
  /\ queue' = Asked(queue, "keys", Writer(Worker, "lockKeys"))
  /\ UNCHANGED <<hand, news, file, state>>

\* Mutant: the key manager is replaced without waiting for its lock.
ReloadKeysUnlocked ==
  /\ pc[Worker] = "lockKeys"
  /\ Goes(Worker, "swap")
  /\ keys' = hand[Worker]
  /\ UNCHANGED <<queue, hand, news, file, config, clients>>

\* KeyManager::reload, which may fail with a Redis store.
ReloadKeys ==
  /\ Has(Worker, "lockKeys", "keys")
  /\ \/ /\ Goes(Worker, "swap")
        /\ keys' = hand[Worker]
        /\ UNCHANGED <<queue, hand>>
     \/ GivesUp /\ UNCHANGED keys
  /\ UNCHANGED <<news, file, config, clients>>

Swap ==
  /\ pc[Worker] = "swap"
  /\ config' = hand[Worker]
  /\ clients' = hand[Worker]
  /\ GivesUp
  /\ UNCHANGED <<news, file, keys>>
-----------------------------------------------------------------------------
\* One step of a task that nobody else decides about.
ProxyStep(p) ==
  Route(p) \/ Select(p) \/ Connect(p) \/ Answer(p) \/ Refuse(p) \/ Report(p)

WatcherStep(w) == Summarise(w) \/ Describe(w)

EditorStep(e) == Authorise(e) \/ Clone(e) \/ Send(e)

WorkerStep ==
  \/ Receive \/ LagEnds \/ Check \/ Save \/ Build
  \/ LockConfig \/ LockClients \/ ReloadKeys \/ Swap

Next ==
  \/ \E p \in Proxies  : Arrive(p) \/ ProxyStep(p) \/ Depart(p)
  \/ \E w \in Watchers : Watch(w) \/ WatcherStep(w) \/ Depart(w)
  \/ \E e \in Editors  : Knock(e) \/ EditorStep(e) \/ Depart(e)
  \/ WorkerStep

Spec == Init /\ [][Next]_vars

\* Every task that can go on does; nobody has to arrive or to depart.
FairSpec ==
  /\ Spec
  /\ \A p \in Proxies  : WF_vars(ProxyStep(p))
  /\ \A w \in Watchers : WF_vars(WatcherStep(w))
  /\ \A e \in Editors  : WF_vars(EditorStep(e))
  /\ WF_vars(WorkerStep)
-----------------------------------------------------------------------------
\* A health report speaks of one configuration: the keys it counted are those
\* of the configuration it describes, although it takes the two locks one
\* after the other and a reload may be under way (detailed_health).
ReportsAgree ==
  \A w \in Watchers : Has(w, "describe", "config") => hand[w] = config

\* What is swapped in was validated and is on disk already, so that a restart
\* continues with it (reload_state_from_config).
InstalledIsSaved ==
  [][config' # config => config' \in ValidConfigs /\ config' = file]_vars

\* The worker applies the accepted updates in the order of their acceptance
\* and skips none: when the channel has overrun it stops for good (lib.rs).
NoUpdateSkipped == IsPrefix(taken, accepted)

\* Tasks that wait for each other for ever.
Deadlocked(S) ==
  S # {} /\ \A t \in S : \E l \in Locks : WaitsFor(queue[l], t, S)

\* The proxy loop and the worker alone never deadlock: whoever waits in a
\* circle, a request to an admin endpoint is among them, one that waits for
\* the configuration while it holds a guard (admin.rs, admin_auth.rs).
DeadlockNeedsAdminRequest ==
  \A S \in SUBSET Tasks : Deadlocked(S) =>
    \E t \in S \cap (Watchers \cup Editors) :
      /\ Waits(queue["config"], t)
      /\ \E l \in Locks : Holds(queue[l], t)

\* The comment in reload_state_from_config says that its locking avoids
\* deadlocks: once it asks for the locks it comes back to the channel.
ReloadEnds == pc[Worker] = "lockConfig" ~> pc[Worker] = "receive"
=============================================================================
