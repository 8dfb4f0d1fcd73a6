---------------------------- MODULE Configuration ----------------------------
(***************************************************************************)
(* What a configuration is (config/app.rs), how one is read from file and  *)
(* environment (config/loader.rs) and which are accepted                   *)
(* (config/validation.rs).                                                 *)
(*                                                                         *)
(* A text is a model value; Scheme gives the scheme of those that parse as *)
(* a URL.  Settings nothing here depends on (top_p, aliases, prefixes) are *)
(* left out.                                                               *)
(***************************************************************************)
EXTENDS Naturals, Sequences

CONSTANTS
  Texts,               \* the texts found where a URL belongs
  Scheme,              \* text -> its scheme, or NotAUrl
  DefaultTarget,       \* https://generativelanguage.googleapis.com
  None,                \* an Option that is not given
  Unreadable           \* an environment variable that does not parse

NotAUrl == "not a url"

ASSUME TextsAssumption ==
  /\ DefaultTarget \in Texts /\ None \notin Texts
  /\ Unreadable \notin Nat /\ None \notin Nat /\ None # Unreadable
  /\ DOMAIN Scheme = Texts

KeyGroup(name, keys, proxy, target) ==
  [name |-> name, keys |-> keys, proxy |-> proxy, target |-> target]

\* ServerConfig::default and AppConfig::default.
DefaultServer ==
  [port |-> 8080, connect |-> 10, request |-> 60, testMode |-> FALSE,
   tokenLimit |-> None]

DefaultConfig ==
  [groups |-> <<>>, server |-> DefaultServer, redis |-> None, threshold |-> None]

\* The fields of AppConfig and ServerConfig.
Shaped(cfg) ==
  /\ DOMAIN cfg = {"groups", "server", "redis", "threshold"}
  /\ DOMAIN cfg.server = {"port", "connect", "request", "testMode", "tokenLimit"}

\* Every key of a configuration with the group that lists it.
KeysOf(cfg) ==
  UNION {{cfg.groups[i].keys[j] : j \in 1..Len(cfg.groups[i].keys)} :
           i \in 1..Len(cfg.groups)}

TargetsOf(cfg) == {cfg.groups[i].target : i \in 1..Len(cfg.groups)}
ProxiesOf(cfg) == {cfg.groups[i].proxy : i \in 1..Len(cfg.groups)} \ {None}
-----------------------------------------------------------------------------
\* A variable that is not set, or does not parse, leaves the setting alone.
Given(value, setting) == IF value \in {None, Unreadable} THEN setting ELSE value

\* REDIS_URL, PORT and MAX_FAILURES_THRESHOLD.  env: [redis, port, threshold].
Overridden(cfg, env) ==
  [cfg EXCEPT !.redis = Given(env.redis, @),
              !.server.port = Given(env.port, @),
              !.threshold = Given(env.threshold, @)]
-----------------------------------------------------------------------------
ParsesAsUrl(text) == Scheme[text] # NotAUrl

\* The schemes a client can be built for.
ProxyAccepted(proxy) ==
  proxy # None => Scheme[proxy] \in {"http", "https", "socks5"}

\* Two places in the lists of keys, of one group or of two.
DuplicateKey(cfg) ==
  \E a, b \in 1..Len(cfg.groups) :
    \E i \in 1..Len(cfg.groups[a].keys), j \in 1..Len(cfg.groups[b].keys) :
      <<a, i>> # <<b, j>> /\ cfg.groups[a].keys[i] = cfg.groups[b].keys[j]

ValidGroups(cfg) ==
  /\ cfg.groups # <<>>
  /\ \A a, b \in 1..Len(cfg.groups) :
       a # b => cfg.groups[a].name # cfg.groups[b].name
  /\ ~DuplicateKey(cfg)
  /\ \A a \in 1..Len(cfg.groups) :
       /\ ParsesAsUrl(cfg.groups[a].target)
       /\ ProxyAccepted(cfg.groups[a].proxy)

ValidRedis(cfg) == cfg.redis # None => ParsesAsUrl(cfg.redis)

\* What max_tokens_per_request may be.
TokenLimits == 1..2000000

ValidServer(server) ==
  /\ server.port = 0 => server.testMode
  /\ server.connect # 0
  /\ server.request # 0
  /\ server.tokenLimit # None => server.tokenLimit \in TokenLimits

\* ConfigValidator::validate.
Valid(cfg) == ValidGroups(cfg) /\ ValidRedis(cfg) /\ ValidServer(cfg.server)
=============================================================================
