--------------------------- MODULE MCRetryHistory ---------------------------
(* Two requests for the same model, that share a threshold of two. *)
EXTENDS RetryHistory, MCProxyLoop

MCOneModel == {pro}

\* Two keys that block at the second failure, then one that blocks at once
\* (a threshold of zero acts like one).
MCTwoKeys ==
  { [groups |-> << GroupOf(gemini, {k1, k2}, {pro}) >>, maxFailures |-> 2],
    [groups |-> << GroupOf(gemini, {k2}, {pro}) >>, maxFailures |-> 0] }

MCRetryReplies ==
  { ReplyOf(200, FALSE, FALSE), ReplyOf(503, FALSE, FALSE),
    ReplyOf(429, FALSE, TRUE) }
=============================================================================
