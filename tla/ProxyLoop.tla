------------------------------ MODULE ProxyLoop ------------------------------
(***************************************************************************)
(* Requests going through the proxy loop (handlers/proxy_loop.rs) at the   *)
(* same time, over the key manager with the in-memory store, while the     *)
(* background worker reloads the configuration (admin.rs).                 *)
(*                                                                         *)
(* The key manager sits behind a tokio RwLock.  A request holds it for     *)
(* reading from the moment it lists its candidates until it has a key or   *)
(* knows there is none (pc "probe"); recording a failure and reloading     *)
(* take it for writing, and are single steps because they exclude every    *)
(* reader and every other writer while they run.                           *)
(***************************************************************************)
EXTENDS KeyManager, ResponseHandlers

CONSTANTS
  Requests,            \* the requests of one run
  NoKey,               \* no key checked out
  Configs,             \* the configurations an administrator may install
  Replies,             \* the upstream responses considered
  NoReply,             \* no upstream response in hand
  MaxReloads           \* bound of the model: reloads in a run

ASSUME ConfigsAssumption == Configs \subseteq Config
ASSUME RepliesAssumption == Replies \subseteq Response /\ NoReply \notin Replies
ASSUME NoKeyAssumption == NoKey \notin Keys
ASSUME MaxReloadsAssumption == MaxReloads \in Nat

VARIABLES
  config,              \* AppState.config
  reloads,             \* reloads so far
  req                  \* request -> where it is and what it carries

vars == <<managerVars, config, reloads, req>>

Answers == {"none", "upstream", "noKeys", "badGateway", "lastResponse",
            "error", "rejected", "cancelled"}

\* What the loop's local variables hold; last abstracts last_response to
\* whether there is one and whether it is a server error.
RequestState ==
  [pc     : {"idle", "route", "select", "probe", "send", "report", "sleep",
             "done"},
   model  : Models,
   group  : Groups \cup {NoGroup},
   cands  : SUBSET Keys,
   start  : Nat,
   probe  : Nat,
   key    : Keys \cup {NoKey},
   reply  : Replies \cup {NoReply},
   last   : {"none", "serverError", "clientError"},
   answer : Answers]

TypeOK ==
  /\ ManagerTypeOK
  /\ config \in Configs
  /\ reloads \in 0..MaxReloads
  /\ req \in [Requests -> RequestState]

Init ==
  /\ config \in Configs
  /\ NewKeyManager(config)
  /\ reloads = 0
  /\ \E m \in [Requests -> Models] :
       req = [r \in Requests |->
                [pc |-> "idle", model |-> m[r], group |-> NoGroup,
                 cands |-> {}, start |-> 0, probe |-> 0, key |-> NoKey,
                 reply |-> NoReply, last |-> "none", answer |-> "none"]]
-----------------------------------------------------------------------------
At(r, label) == req[r].pc = label

\* Mutant: the read guard lives until the request has reported.
ReadersKeepGuard ==
  {r \in Requests : req[r].pc \in {"probe", "send", "report"}}

\* The readers of the key manager lock, and whether a writer can have it.
Readers == {r \in Requests : At(r, "probe")}
WriteLockFree == Readers = {}

\* The request returns; its locals are dropped.
Answer(r, answer) ==
  req' = [req EXCEPT ![r] =
           [@ EXCEPT !.pc = "done", !.answer = answer, !.cands = {},
                     !.start = 0, !.probe = 0, !.key = NoKey,
                     !.reply = NoReply]]

\* The loop was left with no key: what becomes of the last response.
ExhaustedAnswer(r) ==
  CASE req[r].last = "none"        -> "noKeys"
    [] req[r].last = "serverError" -> "badGateway"
    [] req[r].last = "clientError" -> "lastResponse"

LastFrom(reply) == IF IsServerError(reply) THEN "serverError" ELSE "clientError"
-----------------------------------------------------------------------------
Arrive(r) ==
  /\ At(r, "idle")
  /\ req' = [req EXCEPT ![r] = [@ EXCEPT !.pc = "route"]]
  /\ UNCHANGED <<managerVars, config, reloads>>

\* The head of the loop: the model's group, read under the config lock, which
\* is released before the key manager is asked.
Route(r) ==
  /\ At(r, "route")
  /\ req' = [req EXCEPT ![r] =
              [@ EXCEPT !.pc = "select",
                        !.group = GroupForModel(config, req[r].model)]]
  /\ UNCHANGED <<managerVars, config, reloads>>

\* get_next_available_key_info on a group without a key.
NothingToSelect(r) ==
  /\ At(r, "select")
  /\ CandidateKeys(req[r].group) = {}
  /\ Answer(r, ExhaustedAnswer(r))
  /\ UNCHANGED <<managerVars, config, reloads>>

\* The candidates and the place in the ring where this request starts.
DrawIndex(r) ==
  LET g  == req[r].group
      id == GroupId(g)
  IN  /\ At(r, "select")
      /\ CandidateKeys(g) # {}
      /\ NextRotationIndex(id)
      /\ req' = [req EXCEPT ![r] =
                  [@ EXCEPT !.pc = "probe", !.cands = CandidateKeys(g),
                            !.start = counters[id], !.probe = 0]]
      /\ UNCHANGED <<keyInfo, maxFailures, config, reloads>>

\* The key this request looks at next.
Probed(r) == CandidateAt(req[r].cands, req[r].start + req[r].probe)

\* An available key: it is returned, and the key manager lock released.
TakeKey(r) ==
  /\ At(r, "probe")
  /\ SeenAvailable(Probed(r))
  /\ req' = [req EXCEPT ![r] =
              [@ EXCEPT !.pc = "send", !.key = Probed(r), !.cands = {},
                        !.start = 0, !.probe = 0]]
  /\ UNCHANGED <<managerVars, config, reloads>>

\* Mutant: the scan stops one candidate short.
LastProbeEarly(r) == req[r].probe + 2 >= Cardinality(req[r].cands)

LastProbe(r) == req[r].probe + 1 = Cardinality(req[r].cands)

\* A blocked key: on to the next one.
SkipKey(r) ==
  /\ At(r, "probe")
  /\ ~SeenAvailable(Probed(r))
  /\ ~LastProbe(r)
  /\ req' = [req EXCEPT ![r] = [@ EXCEPT !.probe = req[r].probe + 1]]
  /\ UNCHANGED <<managerVars, config, reloads>>

\* The last candidate is blocked too: the loop is left.
GiveUp(r) ==
  /\ At(r, "probe")
  /\ ~SeenAvailable(Probed(r))
  /\ LastProbe(r)
  /\ Answer(r, ExhaustedAnswer(r))
  /\ UNCHANGED <<managerVars, config, reloads>>
-----------------------------------------------------------------------------
\* try_request_with_key fails before there is a response: a bad URL, no
\* client, an open circuit, a transport error or timeout.  The loop returns
\* the error at once; the key is not penalised.
UpstreamError(r) ==
  /\ At(r, "send")
  /\ Answer(r, "error")
  /\ UNCHANGED <<managerVars, config, reloads>>

\* A response that the chain hands to the client.
UpstreamAnswers(r) ==
  /\ At(r, "send")
  /\ \E reply \in Replies : Process(reply) \in {ReturnToClient, Terminal}
  /\ Answer(r, "upstream")
  /\ UNCHANGED <<managerVars, config, reloads>>

\* A response that sends the loop on: it is about to take the write lock.
UpstreamRefuses(r) ==
  /\ At(r, "send")
  /\ \E reply \in Replies :
       /\ Process(reply) \notin {ReturnToClient, Terminal}
       /\ req' = [req EXCEPT ![r] =
                   [@ EXCEPT !.pc = "report", !.reply = reply]]
  /\ UNCHANGED <<managerVars, config, reloads>>

\* handle_api_failure, for RetryNextKey and for BlockKeyAndRetry.
ReportFailure(r) ==
  LET k == req[r].key
      action == Process(req[r].reply)
  IN  /\ At(r, "report")
      /\ WriteLockFree
      /\ action \in {RetryNextKey, BlockKeyAndRetry}
      /\ k \in DOMAIN keyStates
      /\ UpdateFailureState(k, action = BlockKeyAndRetry, maxFailures)
      /\ req' = [req EXCEPT ![r] =
                  [@ EXCEPT !.pc = "route", !.key = NoKey,
                            !.last = LastFrom(req[r].reply),
                            !.reply = NoReply]]
      /\ UNCHANGED <<keyInfo, maxFailures, config, reloads>>

\* The same for a key that a reload has removed: the store's error is passed
\* on with ?, and the client gets a validation error.
ReportRejected(r) ==
  /\ At(r, "report")
  /\ WriteLockFree
  /\ Process(req[r].reply) \in {RetryNextKey, BlockKeyAndRetry}
  /\ req[r].key \notin DOMAIN keyStates
  /\ Answer(r, "rejected")
  /\ UNCHANGED <<managerVars, config, reloads>>

\* handle_rate_limit: the key is marked, then the request sleeps.
ReportRateLimit(r) ==
  /\ At(r, "report")
  /\ WriteLockFree
  /\ Process(req[r].reply) = WaitFor
  /\ SetKeyRateLimited(req[r].key)
  /\ req' = [req EXCEPT ![r] = [@ EXCEPT !.pc = "sleep", !.key = NoKey]]
  /\ UNCHANGED <<keyInfo, maxFailures, config, reloads>>

\* The Retry-After period is over; only now is the response kept as the last.
Wake(r) ==
  /\ At(r, "sleep")
  /\ req' = [req EXCEPT ![r] =
              [@ EXCEPT !.pc = "route", !.last = LastFrom(req[r].reply),
                        !.reply = NoReply]]
  /\ UNCHANGED <<managerVars, config, reloads>>

\* The client goes away: the server drops the request at an await, and with it
\* the guard it may hold.  What it was about to record is lost.
Cancel(r) ==
  /\ req[r].pc \notin {"idle", "done"}
  /\ Answer(r, "cancelled")
  /\ UNCHANGED <<managerVars, config, reloads>>
-----------------------------------------------------------------------------
\* reload_state_from_config: config, clients and key manager are replaced
\* while all three write locks are held.
Reload(cfg) ==
  /\ WriteLockFree
  /\ reloads < MaxReloads
  /\ reloads' = reloads + 1
  /\ config' = cfg
  /\ ReloadKeyManager(cfg)
  /\ UNCHANGED req

\* Every request is answered and the reloads are used up.
Terminated ==
  /\ \A r \in Requests : At(r, "done")
  /\ reloads = MaxReloads
  /\ UNCHANGED vars

\* One step of the request's own task.
Proceed(r) ==
  \/ Route(r)
  \/ NothingToSelect(r)
  \/ DrawIndex(r)
  \/ TakeKey(r)
  \/ SkipKey(r)
  \/ GiveUp(r)
  \/ UpstreamError(r)
  \/ UpstreamAnswers(r)
  \/ UpstreamRefuses(r)
  \/ ReportFailure(r)
  \/ ReportRejected(r)
  \/ ReportRateLimit(r)
  \/ Wake(r)

Next ==
  \/ \E r \in Requests : Arrive(r) \/ Proceed(r) \/ Cancel(r)
  \/ \E cfg \in Configs : Reload(cfg)
  \/ Terminated

Spec == Init /\ [][Next]_vars

-----------------------------------------------------------------------------
\* A client is told that no key is left (503, 502 or the last response) only
\* when every key of its group is blocked at that moment, although the ring
\* was walked one key at a time while other requests recorded failures and an
\* administrator reloaded the keys.
ExhaustionIsReal ==
  [][\A r \in Requests :
       (/\ req[r].answer = "none"
        /\ req'[r].answer \in {"noKeys", "badGateway", "lastResponse"})
       => \A k \in CandidateKeys(req[r].group) : keyStates[k].blocked]_vars

\* The key manager, its locks and the loop implement a pool of usable keys.
Pool == INSTANCE KeyPool WITH
  usable <- {k \in DOMAIN keyStates : ~keyStates[k].blocked},
  inUse  <- [r \in Requests |-> req[r].key]

ImplementsKeyPool == Pool!Spec
=============================================================================
