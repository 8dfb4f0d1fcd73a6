---------------------------- MODULE MCDeployment ----------------------------
(* One host, three hand-written files, three updates, one edit of the keys. *)
EXTENDS Deployment

MCTexts == {"gemini", "other", "proxy", "socks", "redis", "nonsense"}

MCScheme ==
  [t \in MCTexts |->
     CASE t \in {"gemini", "other"} -> "https"
       [] t = "proxy" -> "http"
       [] t = "socks" -> "socks5"
       [] t = "redis" -> "redis"
       [] t = "nonsense" -> NotAUrl]

ConfigOf(groups, p, testMode) ==
  [DefaultConfig EXCEPT !.groups = groups, !.server.port = p,
                        !.server.testMode = testMode]

Main  == KeyGroup("main", <<"k1">>, None, "gemini")
Spare == KeyGroup("spare", <<"k2">>, "proxy", "other")

\* A plain file, a test set-up on any port, one with a proxy.
MCFiles ==
  { ConfigOf(<<Main>>, 8080, FALSE),
    ConfigOf(<<Main>>, 0, TRUE),
    ConfigOf(<<[Main EXCEPT !.proxy = "socks"]>>, 8080, FALSE) }

\* A second group with a proxy of its own, one that is refused, and one that is
\* accepted in test_mode only.
MCUpdates ==
  { ConfigOf(<<Main, Spare>>, 8080, FALSE),
    ConfigOf(<<[Main EXCEPT !.target = "nonsense"]>>, 8080, FALSE),
    ConfigOf(<<Main>>, 0, TRUE) }

MCEdits == { [group |-> "main", keys |-> <<"k2", "k2">>] }

EnvOf(url, p, option) ==
  [redis |-> url, port |-> p, threshold |-> Unreadable, option |-> option]

MCEnvs ==
  { EnvOf(None, None, None), EnvOf("redis", 65535, None),
    EnvOf("nonsense", None, None), EnvOf(None, 0, 8080) }

\* Other processes listen on the ports the two settings ask for.
MCPorts == {8080, 65535}

\* What the system answers a request for port 0 with.
MCEphemeral == {49152}
=============================================================================
