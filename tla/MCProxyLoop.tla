----------------------------- MODULE MCProxyLoop -----------------------------
(* Two configurations of three keys and two groups. *)
EXTENDS ProxyLoop, SequencesExt, TLC

\* Requests are told apart only by the model, which Init gives them in every way.
MCSymmetry == Permutations(Requests)

CONSTANTS k1, k2, k3, gemini, backup, pro, flash

MCKeys == {k1, k2, k3}

MCSortedKeys ==
  [S \in SUBSET MCKeys |-> SelectSeq(<<k1, k2, k3>>, LAMBDA k : k \in S)]

MCGroups == {gemini, backup}

MCModels == {pro, flash}

GroupOf(name, keys, aliases) ==
  [name |-> name, keys |-> keys, aliases |-> aliases]

\* In the first configuration no group serves flash, whose requests may use the
\* keys of every group, and a key blocks at its second failure.  In the second
\* each model has a group and a key of its own, which blocks at once.  A reload
\* from one to the other drops a key, and the group a request has asked for.
MCConfigs ==
  { [groups      |-> << GroupOf(gemini, {k1, k2}, {pro}) >>, maxFailures |-> 2],
    [groups      |-> << GroupOf(gemini, {k1}, {pro}),
                        GroupOf(backup, {k3}, {flash}) >>,
     maxFailures |-> 1] }

ReplyOf(status, invalidKey, retryAfter) ==
  [status |-> status, timeoutText |-> FALSE, invalidKey |-> invalidKey,
   retryAfter |-> retryAfter]

\* A success, a server error, an invalid key and a rate limit with a date.
MCReplies ==
  { ReplyOf(200, FALSE, FALSE), ReplyOf(500, FALSE, FALSE),
    ReplyOf(400, TRUE, FALSE), ReplyOf(429, FALSE, TRUE) }
=============================================================================
