---------------------------- MODULE MCRequestPath ----------------------------
(* Requests and responses framed in both ways, texts at the edges of the   *)
(* limit, and every route.                                                 *)
EXTENDS RequestPath, TLC

CONSTANT clientKey

MCSymmetry == Permutations(Requests)

\* The factors that lower an estimate most: 240 tokens are taken for 210.
Wordy ==
  [tokens |-> 240, chars |-> 1100, words |-> 200, unicode |-> 0, emoji |-> 0,
   punctuation |-> 20, math |-> 0, keywords |-> 0, braces |-> 0,
   semicolons |-> 0, json |-> 2]

\* The factors that raise it most: 95 tokens are taken for 207.
Dense ==
  [tokens |-> 95, chars |-> 200, words |-> 5, unicode |-> 80, emoji |-> 3,
   punctuation |-> 40, math |-> 25, keywords |-> 6, braces |-> 4,
   semicolons |-> 3, json |-> 8]

Page(route) ==
  [route |-> route, hasBody |-> FALSE, headers |-> Empty, query |-> << >>,
   json |-> "none", text |-> NoText, stream |-> FALSE, length |-> 0,
   rewritten |-> 0, bodiless |-> FALSE]

Measured(length) ==
  ("content-length" :> length) @@ ("authorization" :> clientKey)
Chunked ==
  ("transfer-encoding" :> "chunked") @@ ("x-goog-api-key" :> clientKey)

Post(headers, json, text, stream, length) ==
  [Page("proxy") EXCEPT !.hasBody = TRUE, !.headers = headers, !.json = json,
     !.text = text, !.stream = stream, !.length = length,
     !.rewritten = length + 1, !.query = <<clientKey>>]

MCShapes ==
  { Page("none"), Page("health"), Page("metrics"), Page("proxy"),
    Post(Measured(2), "object", Wordy, FALSE, 2),
    Post(Chunked, "object", Dense, TRUE, 4),
    Post(Measured(3), "value", NoText, FALSE, 3),
    Post(Measured(MaxRequestSize + 1), "object", NoText, FALSE,
         MaxRequestSize + 1) }

ReplyOf(status, chunked, stream, breaks) ==
  [status |-> status, timeoutText |-> FALSE, invalidKey |-> FALSE,
   retryAfter |-> FALSE, stream |-> stream, length |-> 4, breaks |-> breaks,
   bodiless |-> FALSE,
   headers |-> IF chunked THEN "transfer-encoding" :> "chunked"
                          ELSE "content-length" :> 4]

\* The answer to HEAD.
Headers == [ReplyOf(200, FALSE, FALSE, FALSE) EXCEPT !.length = 0, !.bodiless = TRUE]

MCReplies ==
  { Headers,
    ReplyOf(200, TRUE, TRUE, TRUE), ReplyOf(200, FALSE, FALSE, FALSE),
    ReplyOf(403, FALSE, FALSE, TRUE), ReplyOf(429, FALSE, FALSE, FALSE),
    ReplyOf(503, TRUE, FALSE, FALSE) }

\* A limit that both texts keep, and one that neither does.
MCSettings ==
  { [limit |-> NoLimit, topP |-> TRUE], [limit |-> 210, topP |-> TRUE],
    [limit |-> 205, topP |-> FALSE] }
=============================================================================
