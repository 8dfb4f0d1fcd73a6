----------------------------- MODULE RequestPath -----------------------------
(***************************************************************************)
(* A request's way through the server, from the outermost middleware to    *)
(* the answer (lib.rs, metrics, middleware/request_size_limit.rs,          *)
(* handlers/mod.rs, proxy_loop.rs, proxy.rs): what is counted, what is     *)
(* refused, what is sent upstream and what comes back.  Which key an       *)
(* attempt gets, and what a failure costs it, is ProxyLoop's matter: here  *)
(* a draw gives any key, or none.                                          *)
(***************************************************************************)
EXTENDS ResponseHandlers, Tokenizer, Errors, Functions

CONSTANTS
  Requests,            \* the requests of one run
  Shapes,              \* what a request may look like
  Replies,             \* what the upstream may answer
  Settings,            \* the configurations: token limit and top_p
  Keys, NoKey,
  NoLimit,             \* max_tokens_per_request not set
  NoText,              \* a body without text to count
  NoReply,
  Tiktoken,            \* whether the tokenizer found its vocabulary
  MaxRequestSize,      \* MAX_REQUEST_SIZE
  MaxAttempts,         \* bound of the model: attempts of a request
  MaxReloads           \* bound of the model: reloads in a run

ASSUME BoundsAssumption == MaxAttempts \in Nat /\ MaxReloads \in Nat
ASSUME RequestsAssumption == IsFiniteSet(Requests)

\* A declared length is the body's; but an answer to HEAD, or a 304, declares the
\* length of a body that it does not bring.
ASSUME MessagesAssumption ==
  /\ \A m \in Shapes \cup Replies :
       /\ m.length \in Nat
       /\ "content-length" \in DOMAIN m.headers =>
            m.bodiless \/ m.headers["content-length"] = m.length
  /\ \A s \in Shapes :
       ~s.bodiless /\ s.rewritten \in Nat /\ s.query \in Seq(Range(s.query))
  /\ \A reply \in Replies : reply.status \in 100..599

\* A text is found in a JSON body; a limit has been validated.
ASSUME TextsAssumption ==
  \A s \in Shapes : s.text # NoText => s.text \in Text /\ s.json # "none"
ASSUME LimitsAssumption ==
  \A s \in Settings : s.limit # NoLimit => s.limit \in Nat \ {0}

VARIABLES
  settings,            \* AppState.config, as far as a request reads it
  reloads,
  total, errors,       \* TOTAL_REQUESTS and TOTAL_ERRORS
  req                  \* request -> where it is and what it carries

vars == <<settings, reloads, total, errors, req>>

Empty == [n \in {} |-> 0]

\* HeaderMap::insert: the name's old values go.
Inserted(headers, name, value) ==
  [n \in {name} \cup DOMAIN headers |-> IF n = name THEN value ELSE headers[n]]

NoAnswer == [status |-> 0, headers |-> Empty, length |-> 0, bodiless |-> FALSE,
             truncated |-> FALSE]
Nothing  == [key |-> NoKey, headers |-> Empty, query |-> << >>, length |-> 0,
             bodiless |-> FALSE]

InFlight == {r \in Requests : req[r].pc \notin {"idle", "done"}}

TypeOK ==
  /\ settings \in Settings /\ reloads \in 0..MaxReloads
  /\ total \in 0..Cardinality(Requests) /\ errors \in 0..Cardinality(Requests)
  /\ \A r \in Requests :
       /\ req[r].pc \in {"idle", "open", "scrape", "enter", "draw", "send",
                         "sent", "done"}
       /\ req[r].shape \in Shapes /\ req[r].length \in Nat
       /\ req[r].limits \subseteq {s.limit : s \in Settings}
       /\ req[r].attempts \in 0..MaxAttempts
       /\ req[r].sent.key \in Keys \cup {NoKey}
       /\ req[r].last \in Replies \cup {NoReply}
       /\ req[r].answer.status \in {0} \cup (100..599)

Init ==
  /\ settings \in Settings /\ reloads = 0
  /\ total = 0 /\ errors = 0
  /\ \E shape \in [Requests -> Shapes] :
       req = [r \in Requests |->
                [pc |-> "idle", shape |-> shape[r], headers |-> Empty,
                 length |-> 0, limits |-> {}, attempts |-> 0, sent |-> Nothing,
                 last |-> NoReply, answer |-> NoAnswer]]
-----------------------------------------------------------------------------
\* The response leaves through the middlewares; an error is counted.
Answer(r, answer) ==
  /\ req' = [req EXCEPT ![r] =
               [@ EXCEPT !.pc = "done", !.answer = answer, !.last = NoReply]]
  /\ errors' = IF answer.status >= 400 THEN errors + 1 ELSE errors
  /\ UNCHANGED <<settings, reloads, total>>

\* A response made by the proxy itself.
Made(status) == [NoAnswer EXCEPT !.status = status]

Fail(r, error) == Answer(r, Made(StatusCode(error)))

Goes(r, place) ==
  /\ req' = [req EXCEPT ![r].pc = place]
  /\ UNCHANGED <<settings, reloads, total, errors>>

\* Mutant: the middleware is applied twice.
ArriveCountedTwice(r) ==
  /\ req[r].pc = "idle"
  /\ total' = total + 2
  /\ req' = [req EXCEPT ![r] =
               [@ EXCEPT !.pc = "open", !.headers = req[r].shape.headers,
                         !.length = req[r].shape.length,
                         !.limits = {settings.limit}]]
  /\ UNCHANGED <<settings, reloads, errors>>

Arrive(r) ==
  /\ req[r].pc = "idle"
  /\ total' = total + 1
  /\ req' = [req EXCEPT ![r] =
               [@ EXCEPT !.pc = "open", !.headers = req[r].shape.headers,
                         !.length = req[r].shape.length,
                         !.limits = {settings.limit}]]
  /\ UNCHANGED <<settings, reloads, errors>>

\* request_size_limit_middleware: only a declared length is compared.
TooLong(shape) ==
  /\ shape.hasBody
  /\ "content-length" \in DOMAIN shape.headers
  /\ shape.headers["content-length"] > MaxRequestSize

\* The router, inside that middleware.
Routed(r, route) ==
  /\ req[r].pc = "open"
  /\ ~TooLong(req[r].shape)
  /\ req[r].shape.route = route

RefuseLength(r) ==
  /\ req[r].pc = "open" /\ TooLong(req[r].shape)
  /\ Answer(r, Made(413))

NotFound(r)  == Routed(r, "none") /\ Answer(r, Made(404))
Health(r)    == Routed(r, "health") /\ Answer(r, Made(200))

\* metrics_handler loads one counter, then the other.
LoadTotal(r)  == Routed(r, "metrics") /\ Goes(r, "scrape")
LoadErrors(r) == req[r].pc = "scrape" /\ Answer(r, Made(200))
-----------------------------------------------------------------------------
\* The estimate of a body exceeds the limit.
OverLimit(shape, limit) ==
  /\ limit # NoLimit /\ shape.json # "none" /\ shape.text # NoText
  /\ Estimate(shape.text, Tiktoken) > limit

\* The body breaks off while it is read.
BodyLost(r) == Routed(r, "proxy") /\ Fail(r, "Internal")

RefuseTokens(r) ==
  /\ Routed(r, "proxy")
  /\ OverLimit(req[r].shape, settings.limit)
  /\ Fail(r, "RequestTooLarge")

Injects(shape) == settings.topP /\ shape.json = "object"

\* Mutant: the rewritten body goes out under the length of the old one.
PrepareKeepingLength(r) ==
  LET shape == req[r].shape
  IN  /\ Routed(r, "proxy") /\ ~OverLimit(shape, settings.limit)
      /\ req' = [req EXCEPT ![r] =
           IF Injects(shape)
           THEN [@ EXCEPT !.pc = "enter", !.length = shape.rewritten]
           ELSE [@ EXCEPT !.pc = "enter"]]
      /\ UNCHANGED <<settings, reloads, total, errors>>

\* proxy_handler with process_request_body: top_p goes into an object only,
\* and the length header follows the rewritten body.
Prepare(r) ==
  LET shape == req[r].shape
  IN  /\ Routed(r, "proxy") /\ ~OverLimit(shape, settings.limit)
      /\ req' = [req EXCEPT ![r] =
           IF Injects(shape)
           THEN [@ EXCEPT !.pc = "enter", !.length = shape.rewritten,
                          !.headers =
                            Inserted(req[r].headers, "content-length", shape.rewritten)]
           ELSE [@ EXCEPT !.pc = "enter"]]
      /\ UNCHANGED <<settings, reloads, total, errors>>

\* proxy_loop reads the limit again, which a reload may have changed.
RefuseTokensAgain(r) ==
  /\ req[r].pc = "enter" /\ OverLimit(req[r].shape, settings.limit)
  /\ Fail(r, "RequestTooLarge")

EnterLoop(r) ==
  /\ req[r].pc = "enter" /\ ~OverLimit(req[r].shape, settings.limit)
  /\ Goes(r, "draw")
-----------------------------------------------------------------------------
HopByHop ==
  {"connection", "keep-alive", "proxy-authenticate", "proxy-authorization",
   "te", "trailers", "transfer-encoding", "upgrade", "host", "authorization",
   "x-goog-api-key"}

EndToEnd(headers) == Restrict(headers, DOMAIN headers \ HopByHop)

\* build_target_url: the client's query, and the key behind it.
TargetQuery(r, key) == Append(req[r].shape.query, key)

\* Mutant: the key is appended to the address of the attempt before.
OutgoingAppended(r, key) ==
  [key     |-> key,
   headers |-> Inserted(EndToEnd(req[r].headers), "authorization", key),
   query   |-> Append(IF req[r].attempts = 0 THEN req[r].shape.query
                                             ELSE req[r].sent.query, key),
   length  |-> req[r].length, bodiless |-> FALSE]

\* With build_forward_headers: always from the client's request.
Outgoing(r, key) ==
  [key     |-> key,
   headers |-> Inserted(EndToEnd(req[r].headers), "authorization", key),
   query   |-> TargetQuery(r, key),
   length  |-> req[r].length, bodiless |-> FALSE]

\* A response of the upstream, as the client gets it.
Passed(reply) ==
  [status |-> reply.status, headers |-> EndToEnd(reply.headers),
   length |-> reply.length, bodiless |-> reply.bodiless,
   truncated |-> reply.breaks]

\* Redis answers with an error or drops the connection, or none is to be had.
RedisErrors == {Converted(library) : library \in {"redis", "redis, disconnected", "pool"}}

DrawFails(r) ==
  /\ req[r].pc = "draw"
  /\ \E error \in RedisErrors : Fail(r, error)

NoKeyLeft(r) ==
  /\ req[r].pc = "draw"
  /\ CASE req[r].last = NoReply       -> Fail(r, "NoHealthyKeys")
       [] req[r].last # NoReply       ->
            IF IsServerError(req[r].last) THEN Answer(r, Made(502))
                                          ELSE Answer(r, Passed(req[r].last))

Draw(r, key) ==
  /\ req[r].pc = "draw" /\ req[r].attempts < MaxAttempts
  /\ req' = [req EXCEPT ![r] =
               [@ EXCEPT !.pc = "send", !.sent = Outgoing(r, key),
                         !.attempts = req[r].attempts + 1]]
  /\ UNCHANGED <<settings, reloads, total, errors>>

\* An address that does not parse, no client, an open circuit, or a request that
\* could not be made or sent.
AttemptFails(r) ==
  /\ req[r].pc = "send"
  /\ \E error \in {Converted("url"), "Internal", "CircuitBreakerOpen"} :
       Fail(r, error)

Send(r) == req[r].pc = "send" /\ Goes(r, "sent")
-----------------------------------------------------------------------------
\* Mutant: any stream is handed on, whether the client asked for one or not.
StreamsAny(shape, reply) == IsSuccess(reply) /\ reply.stream

\* The response is handed on without being read.
Streams(shape, reply) ==
  IsSuccess(reply) /\ shape.json = "object" /\ shape.stream /\ reply.stream

\* Reading the body fails: read_and_log_error_body, or process.
ReplyLost(r) ==
  /\ req[r].pc = "sent"
  /\ \E reply \in Replies :
       /\ reply.breaks /\ ~Streams(req[r].shape, reply)
       /\ Fail(r, Converted("axum"))

HandOn(r) ==
  /\ req[r].pc = "sent"
  /\ \E reply \in Replies :
       Streams(req[r].shape, reply) /\ Answer(r, Passed(reply))

Verdict(r, reply) ==
  /\ req[r].pc = "sent"
  /\ ~reply.breaks /\ ~Streams(req[r].shape, reply)

Return(r) ==
  \E reply \in Replies :
    /\ Verdict(r, reply)
    /\ Process(reply) \in {ReturnToClient, Terminal}
    /\ Answer(r, Passed(reply))

\* Mutant: a failed attempt is counted as an error, the request's as another.
RetryCounted(r) ==
  \E reply \in Replies :
    /\ Verdict(r, reply)
    /\ Process(reply) \notin {ReturnToClient, Terminal}
    /\ req' = [req EXCEPT ![r] = [@ EXCEPT !.pc = "draw", !.last = reply]]
    /\ errors' = errors + 1
    /\ UNCHANGED <<settings, reloads, total>>

\* The key's penalty is recorded, and the loop goes on.
Retry(r) ==
  \E reply \in Replies :
    /\ Verdict(r, reply)
    /\ Process(reply) \notin {ReturnToClient, Terminal}
    /\ req' = [req EXCEPT ![r] = [@ EXCEPT !.pc = "draw", !.last = reply]]
    /\ UNCHANGED <<settings, reloads, total, errors>>

\* The penalty cannot be recorded: the key is gone, or Redis fails.
ReportFails(r) ==
  \E reply \in Replies :
    /\ Verdict(r, reply)
    /\ Process(reply) \notin {ReturnToClient, Terminal}
    /\ \E error \in {"Validation"} \cup RedisErrors : Fail(r, error)

\* The client goes away, and the server drops the request with what is above.
Cancel(r) ==
  /\ r \in InFlight
  /\ req' = [req EXCEPT ![r] = [@ EXCEPT !.pc = "done", !.last = NoReply]]
  /\ UNCHANGED <<settings, reloads, total, errors>>

Reload ==
  /\ reloads < MaxReloads /\ reloads' = reloads + 1
  /\ settings' \in Settings
  /\ req' = [r \in Requests |->
       IF r \in InFlight
       THEN [req[r] EXCEPT !.limits = @ \cup {settings'.limit}] ELSE req[r]]
  /\ UNCHANGED <<total, errors>>

Terminated == (\A r \in Requests : req[r].pc = "done") /\ UNCHANGED vars
-----------------------------------------------------------------------------
Proceed(r) ==
  \/ Arrive(r) \/ RefuseLength(r) \/ NotFound(r) \/ Health(r)
  \/ LoadTotal(r) \/ LoadErrors(r)
  \/ BodyLost(r) \/ RefuseTokens(r) \/ Prepare(r)
  \/ RefuseTokensAgain(r) \/ EnterLoop(r)
  \/ DrawFails(r) \/ NoKeyLeft(r) \/ AttemptFails(r) \/ Send(r)
  \/ ReplyLost(r) \/ HandOn(r) \/ Return(r) \/ Retry(r) \/ ReportFails(r)
  \/ \E key \in Keys : Draw(r, key)

Next ==
  \/ \E r \in Requests : Proceed(r) \/ Cancel(r)
  \/ Reload
  \/ Terminated

Spec == Init /\ [][Next]_vars
-----------------------------------------------------------------------------
(* Properties *)

Framed(message) ==
  /\ "transfer-encoding" \notin DOMAIN message.headers
  /\ "content-length" \in DOMAIN message.headers =>
       message.bodiless \/ message.headers["content-length"] = message.length

\* What goes upstream, on the first attempt or a later one, and what goes back
\* to the client has one framing, and it is that of the body it comes with, if
\* it may come with one: the body may have been rewritten, and either peer may
\* have sent chunks (handlers/mod.rs:215-227, proxy.rs:299-308).
MessagesFramed ==
  \A r \in Requests : Framed(req[r].sent) /\ Framed(req[r].answer)

\* An attempt carries its own key, in address and header, and no key of an
\* earlier attempt; of the client's credentials only those of its query are
\* left (handlers/mod.rs:81-87, proxy.rs:283-327).
AttemptsCarryOwnKey ==
  \A r \in Requests :
    LET sent == req[r].sent
    IN  req[r].pc \in {"send", "sent"} =>
          /\ sent.headers["authorization"] = sent.key
          /\ "x-goog-api-key" \notin DOMAIN sent.headers
          /\ sent.query = req[r].shape.query \o <<sent.key>>

\* Thousandths of the base count that a limit stands for at least.
Bears(limit, text, share) ==
  limit = NoLimit \/ share * BaseCount(text, Tiktoken) < 1000 * limit + 500

\* A text goes upstream only if some limit in force since the request came
\* bears 874 thousandths of its tokens, and is refused for its size only if
\* some limit does not bear 2181: the factors make no more difference, and the
\* limit is read twice (handlers/mod.rs:251-256, proxy_loop.rs:45).
TokenVerdictsWarranted ==
  \A r \in Requests :
    req[r].shape.text # NoText =>
      /\ req[r].pc \in {"send", "sent"} =>
           \E limit \in req[r].limits : Bears(limit, req[r].shape.text, 874)
      /\ req[r].pc = "done" /\ req[r].answer.status = 400 /\ req[r].attempts = 0 =>
           \E limit \in req[r].limits : ~Bears(limit, req[r].shape.text, 2181)

\* A response cut short reaches only a client that asked for a stream; every
\* other is read to its end first (proxy_loop.rs:143, proxy.rs:119, processor.rs:38).
NoSilentTruncation ==
  \A r \in Requests :
    req[r].answer.truncated => req[r].shape.stream /\ IsSuccess(req[r].answer)

\* An error is counted only for a request that was counted before and is over,
\* so a report never shows more errors than requests had come when it was
\* read, itself excluded (metrics/middleware.rs:17-25, exporters.rs:20-21).
ErrorsHaveRequests ==
  errors + Cardinality(InFlight) <= total
=============================================================================
