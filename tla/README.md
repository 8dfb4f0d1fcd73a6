# Verification of the Gemini key-rotation proxy

TLA+ models of the proxy in this repository, checked with TLC on small
instances and, for the results that matter most, proved with TLAPS for every
instance. Paths below are relative to the root of the repository; the Rust
sources are under `src/`.

The project answers nine questions about the code:

1. Does the retry loop hand out only usable keys, penalise the right key for the
   right response, and end?
2. Is rotation even when requests of several groups run at the same time?
3. Does the circuit breaker behave when outcomes are recorded late?
4. Does a configuration update reach memory and disk in order, and can the locks on
   its way hang?
5. What remains of a key's state when several instances share it through Redis, and
   connections, processes and rate limits end at any moment?
6. Does what was saved survive a crash: is it accepted by the next start, and is
   it what was in use?
7. Which admin requests get through limiter, authentication and CSRF check, and is
   an edit still authorised when it is handled?
8. What goes upstream and back on a request's way: framing, credentials, token
   verdicts, truncation, counting?
9. Where do the documents promise something else than the code does?

## 1. The system

A request enters `proxy_handler`, which reads the body, finds the model and
calls `proxy_loop`. The loop finds the model's key group, asks the key manager
for a key, sends the request upstream through a circuit breaker, and has the
chain of response handlers decide what follows: return the response, record a
failure of the key and try another, block the key, or mark it rate-limited and
sleep. Administrators change the configuration through endpoints that send a
new one to a background worker; the worker swaps it in.

| Component | State | Operations | Interacts with |
|---|---|---|---|
| Response chain (`handlers/*.rs`) | none | `process`, six `handle` | called by the loop |
| Key store (`storage/`) | per key: group, blocked, failures; a rotation counter per group id | candidate keys, next index, record failure, rate-limit, read state | the manager, through `KeyStore` |
| Key manager (`key_manager.rs`, `core/key_rotation.rs`) | key -> group map, failure threshold | select, failure, rate limit, reload | one tokio `RwLock` around all of it |
| Proxy loop (`handlers/proxy_loop.rs`) | per request: group, key, last response | the loop | configuration lock, manager lock, upstream |
| Circuit breaker (`circuit_breaker.rs`) | state, counts, next attempt | `call` | one per target URL, around `send` |
| Configuration reload (`admin.rs`, `lib.rs`) | configuration, file, channel of 16 updates | add/delete keys, settings, worker | takes the write locks of configuration, clients, manager |
| Redis store (`storage/redis.rs`) | the same in Redis, shared by instances | as the key store, several commands each | other instances, expiry |
| Start-up and shutdown (`main.rs`, `lib.rs`) | the process and its port | load, build, bind, stop | environment, file, other processes |
| Configuration (`config/`) | the file | load, override, validate, save | start-up, worker |
| Application state (`state.rs`) | configuration, clients, breakers, pool, channel | construction, `get_client`, `get_circuit_breaker` | everything |
| Request path (`handlers/mod.rs`, `proxy.rs`, `metrics/middleware.rs`, `middleware/request_size_limit.rs`) | two counters; per request: headers, body, last response | count, refuse, prepare, send, hand on | loop, tokenizer, errors |
| Tokenizer (`tokenizer/gemini_ml_calibrated.rs`) | calibration factors | estimate | request path |
| Admin rate limiter (`middleware/rate_limit.rs`) | count and window start per address | one check | admin routes |
| Admin authentication, CSRF, pages (`middleware/admin_auth.rs`, `admin.rs`) | cookies of a browser | checks, login, token | holds the configuration for reading while the handler runs |

What keeps no state the others read (metrics registry, health checks, static
pages) completes the inventory in `PROJECT.json`, as does code that the server
never starts (`monitoring/key_health.rs`, `security/`).

What is hard here:

- **Interleaving.** Every step of the loop is an `await`. Selection takes
  several of them under the manager's read lock, and recording a failure takes
  the write lock later, when the key may be blocked, reset or gone.
- **Late outcomes.** The breaker lets a call in under its lock, runs it without
  the lock and records the outcome under the lock again.
- **Reload.** It replaces the store under requests in flight: states are fresh,
  keys may have moved or gone, and the group a request looked up may be stale.
- **Dropped requests.** When a client disconnects the handler's future is
  dropped at any `await`, with what it was about to record.
- **Termination.** The loop has no attempt counter.
- **Locks.** Three async locks are taken in different orders, and one is read
  twice by the same task with a fair queue in between.
- **Persistence.** Redis commands are not grouped; the file is overwritten in
  place before the swap, and what start-up makes of it depends on the environment.
- **Stale copies.** Administrators edit copies of the configuration, clients and
  breakers are keyed by an older one than the one in use, the token limit is
  read twice, a request passes authentication before it is handled.
- **Framing and limits.** Bodies are rewritten and re-sent per attempt, upstream
  answers break off, a window of the limiter is fixed and its clock is read
  before its lock is had.

What makes each part correct:

- chain: a key is penalised exactly for responses that speak against it;
- store and manager: only a report takes a key out of rotation, only a reload
  brings it back, rotation is even;
- loop: exhaustion is reported only when it is real, a request never tries a key
  too often, every request is answered;
- breaker: it opens and closes on real streaks, does not probe too early, and
  recovers;
- reload: memory, disk and the administrators' edits agree, nothing deadlocks;
- Redis: no failure is lost, a key is blocked in time by whoever counts, and a
  block lasts as long as it should;
- start-up: what was saved whole is accepted and is what was in use, requests find
  client and breaker, edits are lost in one known way only;
- admin panel: bursts are bounded, nobody is locked out, no edit is handled under
  a token that is no longer in use;
- request path: messages are framed once and right, carry one key, are cut short
  only where the client asked for a stream, and are counted once.

## 2. Modules

| Module | Models |
|---|---|
| `ResponseHandlers` | the handlers and `process`, as operators over an abstract response |
| `ResponseChain` | one decision over every response |
| `InMemoryStore` | `storage/memory.rs` and `storage/key_state.rs` |
| `KeyManager` | `key_manager.rs` and the ring walk of `core/key_rotation.rs`, over `InMemoryStore` |
| `KeyPool` | the abstract promise: a pool of usable keys |
| `ProxyLoop` | requests in the loop, the manager's lock, reloads; composes `KeyManager` and `ResponseHandlers`, implements `KeyPool` |
| `RetryHistory` | `ProxyLoop` and a history of how often each request had each key |
| `RotationHistory` | `ProxyLoop` and a history of the turns each key of a group was given and of its hand-outs |
| `CircuitBreaker` | one breaker and its overlapping calls |
| `FairRwLock` | tokio's read-write lock as a fair queue, as operators |
| `ConfigReload` | administrators, the broadcast channel, the worker, the three locks and the other tasks that take them |
| `KeyLedger` | the abstract promise of a shared store: a ledger of the keys whose entries are made at once |
| `RedisStore` | `storage/redis.rs`: instances, their commands, expiry and faults; implements `KeyLedger` |
| `Configuration` | what a configuration is, how file and environment make one, which are accepted |
| `Deployment` | one installation over its life: starts, crashes, file, worker, clients and breakers; over `Configuration` |
| `AdminPanel` | rate limiter, admin cookie, CSRF token, a browser's pages and other clients |
| `Tokenizer` | the estimate of a text's tokens, as operators |
| `Errors` | statuses of errors and conversions of library errors, as operators |
| `RequestPath` | a request from the first middleware to the answer; composes `ResponseHandlers`, `Tokenizer` and `Errors` |
| `MC*` | constants for TLC |
| `*_proofs` | theorems |

**From state to code.** `keyStates` and `counters` are the two maps of
`InMemoryStore`; `keyInfo` and `maxFailures` are `key_info_map` and
`max_failures_threshold`; `config` is `AppState.config`. `req[r]` holds the
local variables of `proxy_loop` for request `r`, and `pc` names the `await` the
request stands at:

| `pc` | Where the request is | Actions that leave it |
|---|---|---|
| `idle` | not arrived | `Arrive` |
| `route` | head of the loop | `Route` |
| `select` | waiting for the manager's read lock | `DrawIndex`, `NothingToSelect` |
| `probe` | inside `select_key`, read lock held | `TakeKey`, `SkipKey`, `GiveUp` |
| `send` | the upstream call | `UpstreamError`, `UpstreamAnswers`, `UpstreamRefuses` |
| `report` | waiting for the manager's write lock | `ReportFailure`, `ReportRejected`, `ReportRateLimit` |
| `sleep` | the `Retry-After` period | `Wake` |

`Cancel` may drop the request at each of them. `Reload` is the background
worker's swap.

In `ConfigReload`, `pc` is the await a task stands at, and `queue` holds, for
each of `AppState.config`, `http_clients` and `key_manager`, who holds it and
who waits, in the order in which they asked:

| Task | Its way | Code |
|---|---|---|
| proxied request | `Arrive`, `Route`, `Select`, `Connect`, then `Answer` or `Refuse` and `Report` | `proxy_loop`, `get_client` |
| health check | `Watch`, `Summarise`, `Describe` | `detailed_health` |
| administrator | `Knock`, `Authorise`, `Clone`, `Send` | `admin_auth_middleware`, `create_and_send_new_config` |
| worker | `Receive` or `LagEnds`, `Check`, `Save`, `Build`, `LockConfig`, `LockClients`, `ReloadKeys`, `Swap` | `run`, `reload_state_from_config` |

In `RedisStore`, `hash[k]` is the Redis hash `key_state:<k>`, `members` the set
`rotation_keys`, and `inst[i].pc` names the command an instance is about to send:

| `pc` | Next command | Actions that leave it |
|---|---|---|
| `down`, `ready` | none, or `SMEMBERS` and `INCR` | `Build`, `List` |
| `scard`, `init` | `SCARD`; the MULTI of the initialisation | `FindsKeys`, `FindsNone`, `Initialise` |
| `probe` | `HGETALL` of a candidate | `TakeKey`, `SkipKey`, `GiveUp` |
| `send` | none, the upstream call | `Answer`, `Refuse`, `Limit` |
| `count`, `stamp`, `block` | `HINCRBY`, `HSET last_failure`, `HSET is_blocked` | `CountFailure`, `Stamp`, `Block` |
| `limit` | the MULTI of `HSET` and `EXPIRE` | `SetRateLimited` |

`Break` (a command fails, or the client goes) and `Crash` may come at each of
them, `Expire` at any time.

In `Deployment`, `file` is `config.yaml`: absent, torn (it does not parse), cut (the
beginning of a configuration, which parses as a smaller one), or whole.
`config`, `clients`, `breakers`, `redis` are the fields of `AppState`, `channel`
what was sent to the worker, `hand` what it works on, and `worker` its next await:

| `worker` | Next step | Actions that leave it |
|---|---|---|
| `idle` | receive and validate | `Receive` |
| `save`, `write` | the two halves of `tokio::fs::write` | `Truncate`, `Write` |
| `build` | `build_http_clients` | `Build` |
| `swap` | reload of the manager, then the assignments, under three locks | `Swap` |

`Stop` may come at each of them, `Start` and `StartFails` follow, and `Operate`
lets the operator edit the file, the environment or what listens on the machine
while the process is down. `AddKeys`, `DeleteKeys` and `UpdateConfig` are the
endpoints that send a configuration; `Draw`, `Connect` and `Finish` follow a
request as far as its client and its breaker.

In `AdminPanel`, `task[c].pc` is where a client's request stands: `limit`
(waiting for the limiter's store), `auth`, `csrf`, `handle`, or back with the
client: `away`, and `refetch` after a 403 of an edit, when the page's
`fetchWithAuth` asks for a new CSRF token first (`static/keys_management.html:94`). In `RequestPath`, `req[r].pc` is `open` (at the size limit and the
router), `scrape` (between the two loads of a metrics report), `enter` (the
second token check), `draw`, `send` and `sent` (the loop), `done`.

`Depart` is any early return, refused login, error or disconnection of a
request. `ProxyLoop` keeps one lock and its `Reload` in one step; `ConfigReload`
keeps all locks and drops what the keys are.

**Grain of atomicity.** A step that needs a lock exclusively is one step: nobody
can look in between. `DrawIndex` joins three awaits (the store's keys, the
filter, the counter) because under the read lock only counters change, and the
listing of candidates does not read them. The ring walk is one step per probed
key, since that is where another request's draw, and its upstream call, may
come in between. Tokio's lock lets a queued writer go before new readers; the
model lets either go first, which allows every schedule the lock does. In
`ConfigReload` the order of the queue decides, and is kept. There a step that
drops one lock and asks for another does both at once: nobody can tell, as
the locks differ. The reading of the configuration by `proxy_handler` ahead of
the loop is the loop's own, once more, and is left out, as are the endpoints
that take one lock for the length of a call.

**Abstractions.** A response is a status and three marks: whether the body
mentions a timeout, whether it holds `API_KEY_INVALID`, whether `Retry-After`
parses. `last_response` is reduced to whether it is a server error, which is
all the exit of the loop asks. `consecutive_failures` and the counters are
unbounded; a `u32` or `usize` is not exhausted in practice, as a key is blocked
at the threshold. In the breaker, the instant `next_attempt` is kept as the ticks
left to it, because the code asks only whether it has come. `failureCount` stops
at the threshold, beyond which the code makes no difference. The breaker's
`outage` flag and the history variables are part of the model only: they say
when calls may fail and what was recorded. In `ConfigReload` a configuration
is the set of edits it contains: an administrator adds an edit, takes one
away, or sends a configuration of his own (`Edits`), and a configuration with
no edit stands for one that validation refuses. Each administrator sends one
update.

In `RedisStore` an instance has one request in flight, and a process with more is
as many instances. The rotation counter is shared by all, so a walk
may start at any candidate and `probe` takes them in any order; that a walk
meets all of them is `WalkMeetsAll`. `SMEMBERS` and `INCR` are one step, since
nothing takes a member out of the set and the counter is not kept. A rate limit
may end at any time after it was set, so no clock is needed. Groups are left to
`KeyManager`. `TrueText` is the text the client library writes for the bool
`true`; the library is not part of the repository. `parse_key_state` reads a
block only from the text `true`, so the run takes that, and the theorems about
blocks in time and about the ledger assume it. A library that wrote `1` would leave
every key free for good: `OverrunBounded` and `ImplementsLedger` would then fail. The clearing of Redis in `test_mode`
is left out. `interrupted` is part of the model only.

In `Deployment` a text is a model value that parses as a URL of some scheme or
does not, pool sizes and timeouts of clients are left out, and the worker's
channel is a sequence of `MaxPending` places, beyond which `ConfigReload` says
what happens. A start may fail for reasons that are not modelled (the tokenizer,
Redis, another bind error), and so may the clients of an update. A write of
the file that is cut short leaves any beginning of it: `PartsOf` lists those that
parse, in the order in which `serde` writes the fields. The locks are `ConfigReload`'s. `current`, `ahead`, `saved` and
`reloaded` are history: whether an update or a drawn key comes from the
configuration in use, whether the file was saved and not installed, who wrote
the file, and whether this process has reloaded. The loops of `add_keys` and
`delete_keys` are one operator each: `Entries` takes the entries of a list at some
positions in their order, which are the first mentions of new keys for the one and
what `retain` keeps for the other.

In `AdminPanel` time is in ticks and an instant is the ticks since it; an age stops
at `OldestAge`, beyond which the code makes no difference. `MaxWait` bounds how
long a request waits for the store's lock. The CSRF token is the page that
fetched it. `watch` is history: for each address, a span of one window that is being
watched and the requests let through in it. `ConnectInfoProvided` says whether the server
hands on the peer's address: the tests of the repository do with
`MockConnectInfo`, `serve_command` does not (section 5).

In `RequestPath` headers are a function from the names that matter to values, a
query the sequence of its keys, a body its length, its kind of JSON, the features
of its text and whether it asks for a stream. An answer to `HEAD`, or a 304, is
`bodiless`: its length header speaks of a body that does not come, and the proxy
passes it on as it is. Which key an attempt gets is
`ProxyLoop`'s, so a draw gives any. The repository counts a text in `f64`;
`Tokenizer` uses exact fractions, which differ at most at a rounding tie.
`limits` is history: the token limits in force since the request came.

## 3. Runs

| Run | Shows | Bounds |
|---|---|---|
| `response_chain` | `PenalisesExactlyFaultyKeys`, `HandlersAgree` | all 900 statuses, all marks: exhaustive |
| `proxy_loop` | `TypeOK`, `RotationBalanced`, `ExhaustionIsReal`, `ImplementsKeyPool` | 2 requests (symmetric), 3 keys, 2 groups, 2 models, 4 responses, 1 reload |
| `proxy_retries` | `AttemptsBounded`, `EveryRequestAnswered` | 2 requests, 2 keys, thresholds 2 and 0, 1 reload, fair |
| `blocked_keys` | finding | as `proxy_retries`, no reload |
| `circuit_breaker` | `TypeOK`, three streak and timing properties, `RecoversAfterOutage` | 4 calls, thresholds of 3, recovery of 3 ticks |
| `config_reload` | `TypeOK`, `ReportsAgree`, `NoUpdateSkipped`, `DeadlockNeedsAdminRequest`, `InstalledIsSaved` | 2 proxied requests (symmetric), 1 health check, 2 administrators, channel of 1 |
| `reload_deadlock` | finding | as `config_reload` with 1 proxied request, fair |
| `redis_store` | `TypeOK`, `OverrunBounded`, `OnlyExpiryUnblocks`, `ImplementsLedger` | 2 instances (symmetric), 2 keys, 2 configurations, threshold 2, 1 lost block per key |
| `start_up` | `TypeOK`, `SavedIsAccepted`, `RestartKeepsConfiguration`, `RequestsFindTheirWay`, `EditsLostOnlyByOverlap` | 3 files, 4 environments with and without `--port`, 3 updates, 1 edit of keys, channel of 1, 1 request, any number of starts and crashes |
| `admin_panel` | `TypeOK`, `BurstBounded`, `HandlersRunUnderCurrentToken`, `AskersLetThrough` | 1 page and 1 other client behind one address, 2 admin tokens or none, limit 2, window 3, wait 1, fair |
| `admin_unreachable` | finding | as `admin_panel`, without the peer's address |
| `request_path` | `TypeOK`, `MessagesFramed`, `AttemptsCarryOwnKey`, `TokenVerdictsWarranted`, `NoSilentTruncation`, `ErrorsHaveRequests` | 2 requests (symmetric) of 8 shapes, 6 responses, 3 settings, 2 keys, 2 attempts, 1 reload |

Why the bounds are enough for what happens in the code: two requests show every
race for one lock and one key; three keys in two groups show a ring with a
blocked key in the middle, a group of one and requests that use all groups; the
two configurations differ in the group of a key, in the keys and groups there are and in the
threshold; the four responses take each of the five actions of the loop's
`match` (a plain return and a terminal response leave the loop alike). A request
can retry until all keys are blocked, so long runs are included. `MaxReloads`
is the one bound of the specification itself; a theorem covers any value.
In the breaker, four calls let one outcome be late while a streak of three is
recorded.

In `config_reload`, two updates fill a channel of one while the worker has
none and overrun it, or follow one another through the worker. A circle of
waiting tasks needs two locks or a task with two entries in one queue; each of
the four kinds of task is there, and two of those that read and write a lock in
turn. `DeadlockNeedsAdminRequest` looks at every set of tasks in every state.

In `redis_store`, two instances meet at every pair of commands; the configurations
differ by a key, so that an instance may know keys Redis does not list, and
list keys it does not know. The threshold of 2 lets a block be decided by
another instance than the one that counted first. `MaxInterrupted` bounds the
faults that keep a decided block from Redis; other faults are unbounded.

In `start_up`, one place in the channel and one update in the worker's hand make
the overlap of two edits; the files and updates differ in everything validation
and construction look at: a group and its proxy are added, a proxy is replaced
(`socks`), a target does not parse, `test_mode` is set. Validation accepts the three
schemes of which `create_proxy_from_scheme` makes a proxy and no other
(`config/validation.rs:168`, `state.rs:148`; the tests from `state.rs:513` build
one of `socks5`), so `Builds` refuses no valid configuration, and a build fails for
the library's reasons only. The environments set, leave alone or spoil each
override, ask for the highest port or for port 0, and one overrides that by
`--port`; the system picks a port for whoever binds port 0 (a file in `test_mode`, or
the search past 65535). `admin_panel`
has a window longer than the wait and twice a limit of two, so that a burst over
an edge is four requests. In `request_path`, two attempts show what an earlier
one could leave behind; two texts stand at the lowest (874) and at the highest
(2181 thousandths) estimate the factors can make of a count. Both are sent under
the limit of 210, the first to its last token, and refused under that of 205, with a
reload from one to the other between the two checks.

`ResponseChain.cfg` turns the deadlock check off: the model takes one decision and
stops. `ConfigReload.cfg` and
`ConfigReloadDeadlock.cfg` turn it off because tasks really may wait for each
other; `DeadlockNeedsAdminRequest` says exactly who. Everywhere else it is on; `Terminated` is
the state in which all requests are answered.

### Fairness

`FairRetrySpec` assumes weak fairness of each request's own steps: a ready task
is polled, the lock is granted to whoever waits (tokio's is a fair queue), each
HTTP client has a request timeout so that an upstream call ends, and a sleep
ends. It assumes nothing about arrivals, reloads or disconnections.
`EveryRequestAnswered` needs no fairness between requests beyond that, because
readers leave the ring walk in a bounded number of steps.

`FairSpec` of `ConfigReload` assumes weak fairness of each task's own steps, no
arrival, and no departure: a client need not give up. The lock's fairness is in
the queue itself. With no health check and a single administrator `ReloadEnds`
holds; a health check, or a second administrator, is enough to break it.

`FairSpec` of the breaker assumes that time passes, that some call is made again
and again (weak), and that calls which are made again and again succeed again
and again once the outage is over (strong: a call in flight may be dropped, and
another admitted, any number of times; it is not assumed that any given call
succeeds). Late failures of calls from the outage are not excluded.

`FairSpec` of `AdminPanel` assumes that time passes, that a request which can go on
does (its task is polled, the store's mutex is handed on), and that the clients
without a browser keep asking. It says nothing of reloads or of pages.
`AskersLetThrough` holds because a refusal leaves the window's start alone.

## 4. Proofs

All theorems hold for any sets of keys, groups, requests and responses and any
bounds, under the named assumptions: texts and the values of options are distinct,
configurations have the fields of `AppConfig`, the kinds of tasks are disjoint, limit and window are positive and
the wait is below the window; configurations and edits hold lists (`Vec`), a token
limit is positive (`config/validation.rs:34`), a body with a text is JSON; the keys are finite and `SortedKeys`
permutes them (`sort_by`), configurations are well typed, the model values
`NoKey`, `NoGroup`, `NoReply` and `NoHash` are no keys, groups, responses or
hashes, the breaker's thresholds are positive, and the instances on one Redis are
finitely many.

- **Chain** (`ResponseChain_proofs`). `FirstHandlerDecides` turns the minimum
  over handler positions into a case split; the theorems follow.
- **Ring walk** (`ProxyLoop_proofs`, first part). `WalkMeetsAll`: n consecutive indexes
  modulo n meet every candidate, wherever they start. It rests on
  `RingCovered`, arithmetic on remainders.
- **Loop** (`ProxyLoop_proofs`). `LoopInv` is inductive: types, `HoldsKey` (who
  answers for a key) and `Walking`: while a request is in the ring, its
  candidates are still the keys of its group and every key passed is still
  blocked. `TypeOK` alone is not enough for `ExhaustionIsReal`, since the last
  probe knows only its own key; `Walking` remembers the earlier ones, and it is
  stable because every action that changes keys needs `WriteLockFree`. Together
  with `WalkMeetsAll` it gives `ExhaustionReal`. `ImplementsPool` maps a take to
  `CheckOut`, an answer, report or drop to `LetGo`, a reload to `Reload`, and
  everything else to a stutter.
- **Retries** (`ProxyLoop_proofs`, last part). `AttemptsBounded` is strengthened by
  `Accounted`: a key that is not blocked has as many failures as each request had
  attempts with it, less the one in hand, and fewer than the threshold. A
  rate-limited key is blocked at once and needs no count. A request dropped
  with a key in hand is over, so its lost report cannot buy it more attempts.
- **Rotation** (`ProxyLoop_proofs`, end). `RotationBalanced` compares hand-outs of one
  key with turns of another. `RotationInv` ties both to the counter: if it
  stands at n times the size of the ring plus m, the first m keys of the ring have
  had n + 1 turns and the others n (`TurnsSpread`); and the hand-outs of a key, with the
  requests that have begun their walk at it, are no more than its turns while no key
  is blocked (`HandOutsTookTurns`). That the second holds rests on the read lock:
  nothing is blocked during a walk, so the first key of a walk is the one taken.
  The counter belongs to one group unless a group is called `default`, which
  the property excepts (`SharesCounter`, section 5).
- **Breaker** (`CircuitBreaker_proofs`). `BreakerInv` ties each count to the
  history of outcomes and, while not closed, the ticks left to the quiet time.
- **Redis** (`RedisStore_proofs`). `LocalInv` adds to `TypeOK` what an instance's
  variables say about where it is (`Consistent`); a lemma per kind of step shows
  that it is kept over an arbitrary record, and the steps of `Next` cite them.
  `OnlyExpiryUnblocks` follows. `OverrunBounded` is not inductive: it does not
  say who took the count past the threshold. `Overrun` attributes the excess to
  the instances in `Spent(k)`: while the key is free, those that have decided to
  block it; once it is blocked, all but those that may still count. A count adds
  its instance to `Spent` or stays below the threshold, a block
  turns one set into the other without losing anyone, and an instance that a
  fault takes out of it is counted in `interrupted`.
  `ImplementsLedger` is a refinement: `KeyLedger` has no commands, no hashes that
  come into being and no walk, only entries made at once. A key counts as
  withdrawn when Redis says it is blocked, as limited while its hash has a time to live,
  and an instance's use of a key has come as far as `Stage` says. `HGETALL` of the key
  taken is the check-out, `HINCRBY` the charge, `HSET is_blocked` the withdrawal, the
  MULTI of a rate limit the withdrawal for now, the expiry the return, a fault the user
  leaving; `SMEMBERS`, `HSET last_failure` and the probes before the last are no
  entries. `LedgerStep` maps each step so under `LocalInv`. What the ledger
  allows is thus what the store may do: a user may leave with a charge that is due, a
  time limit stays on a key that is withdrawn for good and returns it, and a user that
  found the ledger empty may found it late.

- **Reload** (`ConfigReload_proofs`). `LockInv` says that the entries of a queue
  follow from where the tasks stand (`Due`), that a queue is ordered, and that only the
  entry of the await a task stands at may have to wait. A fair queue is kept as who
  stood ahead of whom when an entry asked (`FairRwLock`), and dropping a guard keeps
  that order; a sequence would need induction over its length. `UpdateInv` says what the
  worker holds from its check on (`HandOK`), what an administrator is about to
  send (`DraftsOK`), and, until the channel overruns, that the accepted updates
  are those received followed by those in the channel (`NewsOK`). `KeysInv`
  ties the key manager to the configuration: they differ between the worker's two
  assignments only. `TypeOK`, `ReportsAgree`, `NoUpdateSkipped` and `InstalledIsSaved`
  follow. For `DeadlockNeedsAdminRequest`: in a set of tasks that all wait for
  each other, the foremost stuck entry of a queue waits for a holder in the set,
  which must stand at another lock (`HolderInCircle`). Proxied requests hold one lock at a
  time, and the worker takes its locks in one order, so a circle has an administrator or a
  health check in it, waiting for the configuration with a guard in its hands.
- **Deployment** (`Deployment_proofs`). The three state properties speak of file
  and memory, while an update changes the one steps before the other. `IInv` adds
  what the update in hand is (`HandOK`: validated, with the process's
  `test_mode`), what the environment could be at the start (`EnvironmentOK`), and
  how file, hand and memory relate at each place of the worker (`DiskOK`).
  `OverriddenValid` is why a saved file is accepted: the overrides of this
  environment were validated once, and only `test_mode` decides whether port 0
  passes. `OverriddenTwice` is why a restart gives the same configuration. Both
  compare records field by field. `Served` adds to `IInv` the parts of `TypeOK`
  it does not say. `EditsLostOnlyByOverlap` needs to know of every update on its
  way, not only of the one in hand, that while it is current it agrees with the
  configuration in use on every key it is not about (`About`, in `Lists`): adding and
  deleting establish it (`AddedKeys`, `DeletedKeys`, from `EntriesOf` and a count
  of positions, `Ranked`), an installed update ends it for all others, and nothing
  else changes the configuration of a running process.
- **Admin panel** (`AdminPanel_proofs`). `HandlersRunUnderCurrentToken` is
  strengthened by `EditsCurrent` to every place at which the guard on the
  configuration is held; `Authorise` establishes it, `Reload` needs that nobody
  stands there. `BurstBounded` is about any span of a window's length, the
  limiter about windows that begin anywhere: `SpanOK` says that what was let
  through in the span is in the count of the current window, or partly in that of
  the one before, which then ended in the span. The rest of `IInv` is the shape
  of tasks and entries.
- **Request path** (`RequestPath_proofs`). The properties speak of messages sent;
  `PathInv` adds what they are made of: `Measures` (the client's length header is
  that of the body as it stands, which `Prepare` must restore), that the response
  kept for the client was read to its end, and `Came`, the requests
  `total` counts. Every step is one of three kinds (a request comes, moves on,
  leaves); a lemma per kind shows what it does to the counters, and the actions
  cite it with the record they produce. Assumed: a declared length is the
  body's, unless the answer may not bring one (`MessagesAssumption`), and requests
  are finitely many. For the token
  verdicts, `TokensJudged` keeps which limits a request was compared with, and
  `EstimateWithin` what such a comparison says: the seven factors keep a count
  between 874 and 2181 thousandths of itself (`CalibratedBetween`, a factor at a time
  by `BetweenTimes`), and rounding is to the nearest number (`RoundedNearest`).

Every invariant and action property of a passing run is a theorem. Only
model-checked is liveness (`EveryRequestAnswered`, `RecoversAfterOutage`,
`AskersLetThrough`), which is out of the prover's reach as it needs fairness and
ENABLED. What a run finds violated is shown by its counterexample. The prover has no
induction over data either: lists are therefore defined by their positions
(`Entries`), queues by sets, the product of factors by name, and a least or
last element comes from `LeastNumber` or a count.
`AttemptsBounded` is the measure that makes the loop end,
so its theorem carries the safety half of `EveryRequestAnswered` to all sizes.

## 5. Where the documents and the code disagree

| Run | The documents | The code |
|---|---|---|
| `blocked_keys` | `README.md:92`, `README.md:399`, `config.example.yaml:37`: blocks are temporary | nothing unblocks a key in memory but a reload (`storage/memory.rs:91`); `temporary_block_minutes` is never read |
| `reload_deadlock` | `admin.rs:750`: the reload's locking avoids deadlocks | it waits for the key manager with the configuration locked, `detailed_health` the other way round (`admin.rs:373`, `admin.rs:379`); proxied requests hang with them until that client leaves |
| `admin_unreachable` | `QUICKSTART.md:105`: open `/admin/` on the running server | the limiter extracts the peer's address, which `serve_command` does not provide (`main.rs:156`), so every admin request is answered with 500; `admin_panel` checks the design the tests exercise, with the address provided |

Read in the code while modelling, without a run of their own:

- A 403 is terminal and leaves the key in rotation (`handlers/terminal_error.rs:22`);
  `README.md:398` says the key is marked and the next one tried.
  `PenalisesExactlyFaultyKeys` therefore says nothing of a 403.
- A 500 or 503 costs the key a failure and goes to the next key at once
  (`handlers/server_error.rs:32`); `README.md:400` speaks of retries with the same
  key first.
- A group named `default` shares its rotation counter with requests that have no
  group (`key_manager.rs:173`), so its keys need not alternate;
  `config.example.yaml:42` promises round-robin within a group.
- In Redis, a rate limit on a key that is being found invalid sets an expiry on the
  same hash (`storage/redis.rs:263`): limit, terminal block, expiry, and the key
  is back. `ARCHITECTURE.md:84` says it is disabled permanently.
- `AppError::Authentication` is answered with 403, a comment at `error/mod.rs:189`
  says 401; the admin page asks for a login on 401 only
  (`static/keys_management.html:89`), which no handler answers with, and takes each
  403 of an edit for a CSRF token that expired.
- Errors of Redis and of key storage are answered with 503, the comment above them
  (`error/mod.rs:221`) says 504.
- Without `max_tokens_per_request` nothing is checked; `config/app.rs:47` and
  `docs/CONFIGURATION_ARCHITECTURE.md:60` speak of a default of 250 000.
- The file is overwritten in place (`config/loader.rs:79`): after a write that was cut
  short the next start may refuse it, or accept a beginning of it and come up
  with fewer groups or keys. The properties on restarts except it (`saved`, `ahead`).
- Overrides of the environment are written into the file by the next edit, as the
  worker saves the configuration in use, overrides included.
- A changed `redis_url` has no effect before a restart: `Swap` leaves the pool.
- The search for a port counts in a `u16`: past 65535 it goes on at 0 in a release
  build and panics in a debug build (`main.rs:111`).
- One CSRF cookie serves all pages of a browser (`admin.rs:661`): the second page
  to load makes the first one's next edit fail.
- Of repeated headers one survives (`proxy.rs:302`, `insert`); a client's own
  `?key=` stays in the query next to the proxy's key.
- A Gemini-native stream request has no `"stream": true` in its body and is read
  whole before it is answered.
- A metrics report may show more errors than requests, as the total is loaded
  first; `ErrorsHaveRequests` compares with the requests there were when the
  errors were read, and does not see the report itself: the two loads keep no
  values.

A comment in `on_success` of the breaker (`circuit_breaker.rs:136`) says that a success
while open should not happen. It does when a call outlives the closed state:
`SuccessWhileOpen` of `CircuitBreaker` is that step, and the properties hold with it.

## 6. Not modelled, and what is left

Not modelled, because no path of the server reaches it: `security/`,
`utils/crypto.rs`, `config/environment.rs`, `monitoring/`, `error/handlers.rs`,
the registry of `metrics/mod.rs`, `tokenizer/smart_parallel.rs` beyond its
initialisation, the `KeyStateStore` half of the stores. Not modelled, because it is
text: titles and wording of errors, pages, logging, translation of paths and
names of models, commands that only print.

What would come next:

1. The loop over Redis: a rate limit expires there, so a request may retry for as
   long as the upstream answers 429. State, over `KeyLedger`: an attempt costs a
   charge or waits for a return.
2. An abstract register of configurations that applies each edit to the latest
   one, and under which schedules `ConfigReload` and `Deployment` implement it.
3. The breaker composed with `RequestPath`: every upstream call is counted once
   or rejected.
