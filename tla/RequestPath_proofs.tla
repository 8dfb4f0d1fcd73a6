-------------------------- MODULE RequestPath_proofs --------------------------
(***************************************************************************)
(* Proofs about RequestPath, for any requests, responses, settings and     *)
(* keys: how messages are framed, which key an attempt carries, what may   *)
(* reach a client cut short, how errors and requests are counted, and what *)
(* the verdicts on the number of tokens are worth.                         *)
(***************************************************************************)
EXTENDS RequestPath, Integers, FiniteSetTheorems, TLAPS

Places == {"idle", "open", "scrape", "enter", "draw", "send", "sent", "done"}
Moving == Places \ {"idle", "done"}

RequestTyped(q) ==
  /\ DOMAIN q = {"pc", "shape", "headers", "length", "limits", "attempts",
                 "sent", "last", "answer"}
  /\ q.pc \in Places /\ q.shape \in Shapes /\ q.length \in Nat
  /\ q.limits \subseteq {s.limit : s \in Settings}
  /\ q.attempts \in 0..MaxAttempts
  /\ q.sent.key \in Keys \cup {NoKey}
  /\ q.last \in Replies \cup {NoReply}

\* A declared length is that of the body: not yet with one framing only, for
\* these are the client's headers until an attempt is made of them.
Measures(q) ==
  "content-length" \in DOMAIN q.headers => q.headers["content-length"] = q.length

CarriesOwnKey(q) ==
  /\ q.sent.headers["authorization"] = q.sent.key
  /\ "x-goog-api-key" \notin DOMAIN q.sent.headers
  /\ q.sent.query = q.shape.query \o <<q.sent.key>>

\* What an answer to a request of this shape may be.
AnswerOK(shape, a) ==
  /\ Framed(a)
  /\ a.status \in {0} \cup (100..599)
  /\ a.truncated => shape.stream /\ IsSuccess(a)

\* A text that is sent was within a limit; one refused for its size, as a 400
\* before any attempt says, was above one.
TokensJudged(q) ==
  /\ q.pc \in {"send", "sent"} \/ q.last # NoReply => q.attempts > 0
  /\ q.pc # "done" => q.answer.status = 0
  /\ q.pc \in {"draw", "send", "sent"} =>
       \E limit \in q.limits : ~OverLimit(q.shape, limit)
  /\ q.answer.status = 400 /\ q.attempts = 0 =>
       \E limit \in q.limits : OverLimit(q.shape, limit)

\* The response kept for the client was read to its end.
RequestOK(q) ==
  /\ RequestTyped(q)
  /\ Measures(q)
  /\ Framed(q.sent)
  /\ q.pc \in {"send", "sent"} => CarriesOwnKey(q)
  /\ q.last # NoReply => ~q.last.breaks
  /\ AnswerOK(q.shape, q.answer)
  /\ TokensJudged(q)

Came == {r \in Requests : req[r].pc # "idle"}

\* Every request that came was counted once; at most those over were errors.
CountersOK ==
  /\ errors \in Nat
  /\ total = Cardinality(Came)
  /\ errors + Cardinality(InFlight) <= total

\* The inductive invariant.
PathInv ==
  /\ settings \in Settings /\ reloads \in 0..MaxReloads
  /\ DOMAIN req = Requests
  /\ \A r \in Requests : RequestOK(req[r])
  /\ \A r \in InFlight : settings.limit \in req[r].limits
  /\ CountersOK
-----------------------------------------------------------------------------
\* The sets that are counted, and what a step of one request does to them.
LEMMA Counted ==
  /\ IsFiniteSet(Came) /\ Cardinality(Came) \in Nat
  /\ IsFiniteSet(InFlight) /\ Cardinality(InFlight) \in Nat
  /\ Cardinality(Came) <= Cardinality(Requests)
<1>1. Came \subseteq Requests /\ InFlight \subseteq Requests
  BY DEF Came, InFlight
<1>2. QED
  BY <1>1, RequestsAssumption, FS_Subset, FS_CardinalityType

\* An initial state satisfies the invariant.
LEMMA InitPath == Init => PathInv
<1> SUFFICES ASSUME Init PROVE PathInv
  OBVIOUS
<1>1. PICK shape \in [Requests -> Shapes] :
        req = [r \in Requests |->
                [pc |-> "idle", shape |-> shape[r], headers |-> Empty,
                 length |-> 0, limits |-> {}, attempts |-> 0, sent |-> Nothing,
                 last |-> NoReply, answer |-> NoAnswer]]
  BY DEF Init
<1>2. DOMAIN Empty = {}
  BY DEF Empty
<1>3. Framed(Nothing) /\ \A s : AnswerOK(s, NoAnswer)
  BY <1>2 DEF Framed, Nothing, NoAnswer, AnswerOK
<1>4. ASSUME NEW r \in Requests PROVE RequestOK(req[r])
  <2>1. req[r] = [pc |-> "idle", shape |-> shape[r], headers |-> Empty,
                 length |-> 0, limits |-> {}, attempts |-> 0, sent |-> Nothing,
                 last |-> NoReply, answer |-> NoAnswer]
    BY <1>1
  <2>2. shape[r] \in Shapes
    OBVIOUS
  <2>3. RequestTyped(req[r])
    BY <2>1, <2>2, BoundsAssumption DEF RequestTyped, Places, Nothing
  <2>4. TokensJudged(req[r])
    BY <2>1 DEF TokensJudged, NoAnswer
  <2>5. QED
    BY <2>1, <2>3, <2>4, <1>2, <1>3 DEF RequestOK, Measures
<1>5. Came = {} /\ InFlight = {}
  BY <1>1 DEF Came, InFlight
<1>6. CountersOK
  BY <1>5, FS_EmptySet DEF CountersOK, Init
<1>7. QED
  BY <1>1, <1>4, <1>5, <1>6, BoundsAssumption DEF PathInv, Init

\* A request on its way that stays on its way: nothing is counted.
LEMMA MoveKeeps ==
  ASSUME PathInv, NEW r \in Requests, NEW x,
         req[r].pc \in Moving, x.pc \in Moving, RequestOK(x),
         x.limits = req[r].limits, req' = [req EXCEPT ![r] = x],
         UNCHANGED <<settings, reloads, total, errors>>
  PROVE  PathInv'
<1>1. Came' = Came /\ InFlight' = InFlight
  BY DEF PathInv, Came, InFlight, Moving, Places
<1>2. r \in InFlight
  BY DEF InFlight, Moving, Places
<1>3. QED
  BY <1>1, <1>2 DEF PathInv, CountersOK

\* A request that comes is counted.
LEMMA ArriveKeeps ==
  ASSUME PathInv, NEW r \in Requests, NEW x,
         req[r].pc = "idle", x.pc \in Moving, RequestOK(x),
         settings.limit \in x.limits, req' = [req EXCEPT ![r] = x], total' = total + 1,
         UNCHANGED <<settings, reloads, errors>>
  PROVE  PathInv'
<1>1. /\ Came' = Came \cup {r} /\ r \notin Came
      /\ InFlight' = InFlight \cup {r} /\ r \notin InFlight
  BY DEF PathInv, Came, InFlight, Moving, Places
<1>2. /\ Cardinality(Came') = Cardinality(Came) + 1
      /\ Cardinality(InFlight') = Cardinality(InFlight) + 1
  BY <1>1, Counted, FS_AddElement
<1>3. CountersOK'
  BY <1>2, Counted DEF PathInv, CountersOK
<1>4. QED
  BY <1>1, <1>3 DEF PathInv

\* A request that is over is one error, or none.
LEMMA LeaveKeeps ==
  ASSUME PathInv, NEW r \in Requests, NEW x,
         req[r].pc \in Moving, x.pc = "done", RequestOK(x),
         req' = [req EXCEPT ![r] = x], errors' \in {errors, errors + 1},
         UNCHANGED <<settings, reloads, total>>
  PROVE  PathInv'
<1>1. /\ Came' = Came
      /\ InFlight' = InFlight \ {r} /\ r \in InFlight
  BY DEF PathInv, Came, InFlight, Moving, Places
<1>2. Cardinality(InFlight') = Cardinality(InFlight) - 1
  BY <1>1, Counted, FS_RemoveElement
<1>3. CountersOK'
  BY <1>1, <1>2, Counted DEF PathInv, CountersOK
<1>4. QED
  BY <1>1, <1>3 DEF PathInv
-----------------------------------------------------------------------------
\* A response made by the proxy has no body to frame or to break off.
LEMMA MadeOK ==
  ASSUME NEW shape, NEW status \in 100..599
  PROVE  AnswerOK(shape, Made(status))
<1>1. DOMAIN Empty = {}
  BY DEF Empty
<1>2. Made(status).status = status /\ Made(status).headers = Empty
  BY SMT DEF Made, NoAnswer
<1>3. ~Made(status).truncated
  BY Zenon DEF Made, NoAnswer
<1>4. QED
  BY <1>1, <1>2, <1>3 DEF AnswerOK, Framed

\* A response of the upstream is framed by the length of its own body.
LEMMA PassedOK ==
  ASSUME NEW shape, NEW reply \in Replies,
         reply.breaks => shape.stream /\ IsSuccess(reply)
  PROVE  AnswerOK(shape, Passed(reply))
<1>1. /\ DOMAIN EndToEnd(reply.headers) = DOMAIN reply.headers \ HopByHop
      /\ \A n \in DOMAIN reply.headers \ HopByHop :
           EndToEnd(reply.headers)[n] = reply.headers[n]
  BY DEF EndToEnd, Restrict
<1>2. "transfer-encoding" \in HopByHop /\ "content-length" \notin HopByHop
  BY DEF HopByHop
<1>3. Framed(Passed(reply))
  BY <1>1, <1>2, MessagesAssumption DEF Passed, Framed
<1>4. QED
  BY <1>3, MessagesAssumption DEF AnswerOK, Passed, IsSuccess

\* What is sent upstream is made of the client's request and the key drawn.
LEMMA OutgoingOK ==
  ASSUME NEW r \in Requests, NEW key \in Keys, RequestOK(req[r])
  PROVE  /\ Framed(Outgoing(r, key))
         /\ Outgoing(r, key).key = key
         /\ Outgoing(r, key).headers["authorization"] = key
         /\ "x-goog-api-key" \notin DOMAIN Outgoing(r, key).headers
         /\ Outgoing(r, key).query = req[r].shape.query \o <<key>>
<1> DEFINE given == EndToEnd(req[r].headers)
           made == Inserted(given, "authorization", key)
           query == Append(req[r].shape.query, key)
<1>1. /\ DOMAIN given = DOMAIN req[r].headers \ HopByHop
      /\ \A n \in DOMAIN given : given[n] = req[r].headers[n]
  BY DEF EndToEnd, Restrict
<1>2. /\ DOMAIN made = {"authorization"} \cup DOMAIN given
      /\ made["authorization"] = key
      /\ \A n \in DOMAIN given : n # "authorization" => made[n] = given[n]
  BY DEF Inserted
<1>3. /\ "transfer-encoding" \in HopByHop /\ "x-goog-api-key" \in HopByHop
      /\ "content-length" \notin HopByHop
  BY DEF HopByHop
<1>4. Outgoing(r, key) = [key |-> key, headers |-> made,
                          query |-> query, length |-> req[r].length,
                          bodiless |-> FALSE]
  BY DEF Outgoing, TargetQuery
<1>5. req[r].shape.query \in Seq(Range(req[r].shape.query))
  BY MessagesAssumption DEF RequestOK, RequestTyped
<1>6. query = req[r].shape.query \o <<key>>
  BY <1>5
<1>7. Measures(req[r])
  BY DEF RequestOK
<1> HIDE DEF given, made, query
<1>8. /\ "transfer-encoding" \notin DOMAIN made /\ "x-goog-api-key" \notin DOMAIN made
      /\ "content-length" \in DOMAIN made => made["content-length"] = req[r].length
  BY <1>1, <1>2, <1>3, <1>7 DEF Measures
<1>9. Framed(Outgoing(r, key))
  BY <1>4, <1>8 DEF Framed
<1>10. /\ Outgoing(r, key).key = key /\ Outgoing(r, key).headers = made
       /\ Outgoing(r, key).query = query
  BY <1>4
<1>11. QED
  BY Zenon, <1>2, <1>6, <1>8, <1>9, <1>10
-----------------------------------------------------------------------------
\* Answering, whatever the answer, keeps the invariant.
LEMMA AnswerKeeps ==
  ASSUME PathInv, NEW r \in Requests, NEW a, req[r].pc \in Moving,
         AnswerOK(req[r].shape, a), Answer(r, a),
         a.status = 400 /\ req[r].attempts = 0 =>
           \E limit \in req[r].limits : OverLimit(req[r].shape, limit)
  PROVE  PathInv'
<1> DEFINE x == [req[r] EXCEPT !.pc = "done", !.answer = a, !.last = NoReply]
<1>1. RequestOK(req[r]) /\ DOMAIN req = Requests
  BY DEF PathInv
<1>2. /\ x.pc = "done" /\ x.answer = a /\ x.last = NoReply
      /\ x.shape = req[r].shape /\ x.headers = req[r].headers
      /\ x.length = req[r].length /\ x.limits = req[r].limits
      /\ x.attempts = req[r].attempts /\ x.sent = req[r].sent
      /\ DOMAIN x = DOMAIN req[r]
  BY <1>1 DEF RequestOK, RequestTyped
<1>3. /\ req' = [req EXCEPT ![r] = x]
      /\ errors' \in {errors, errors + 1}
      /\ UNCHANGED <<settings, reloads, total>>
  BY <1>1 DEF Answer
<1> HIDE DEF x
<1>4. RequestTyped(x)
  BY <1>1, <1>2 DEF RequestOK, RequestTyped, Places
<1>5. TokensJudged(x)
  BY <1>2 DEF TokensJudged
<1>6. RequestOK(x)
  BY <1>1, <1>2, <1>4, <1>5 DEF RequestOK, Measures
<1>7. QED
  BY <1>2, <1>3, <1>6, LeaveKeeps

\* Going on to another place does, if an attempt is only sent once it is made.
LEMMA GoesKeeps ==
  ASSUME PathInv, NEW r \in Requests, NEW place \in Moving,
         req[r].pc \in Moving, Goes(r, place),
         place \in {"send", "sent"} => req[r].pc = "send",
         place = "draw" =>
           \E limit \in req[r].limits : ~OverLimit(req[r].shape, limit)
  PROVE  PathInv'
<1> DEFINE x == [req[r] EXCEPT !.pc = place]
<1>1. RequestOK(req[r]) /\ DOMAIN req = Requests
  BY DEF PathInv
<1>2. /\ x.pc = place /\ x.answer = req[r].answer /\ x.last = req[r].last
      /\ x.shape = req[r].shape /\ x.headers = req[r].headers
      /\ x.length = req[r].length /\ x.limits = req[r].limits
      /\ x.attempts = req[r].attempts /\ x.sent = req[r].sent
      /\ DOMAIN x = DOMAIN req[r]
  BY <1>1 DEF RequestOK, RequestTyped
<1>3. /\ req' = [req EXCEPT ![r] = x]
      /\ UNCHANGED <<settings, reloads, total, errors>>
  BY <1>1 DEF Goes
<1> HIDE DEF x
<1>4. RequestTyped(x)
  BY <1>1, <1>2 DEF RequestOK, RequestTyped, Moving
<1>5. TokensJudged(x)
  BY <1>1, <1>2 DEF RequestOK, TokensJudged, Moving, Places
<1>6. RequestOK(x)
  BY <1>1, <1>2, <1>4, <1>5 DEF RequestOK, Measures, CarriesOwnKey
<1>7. QED
  BY <1>2, <1>3, <1>6, MoveKeeps
-----------------------------------------------------------------------------
\* The statuses of the errors a request can end with.
LEMMA StatusesOK ==
  ASSUME NEW error \in {"Internal", "RequestTooLarge", "NoHealthyKeys",
                        "CircuitBreakerOpen", "Validation", "RedisOperation",
                        "RedisConnection", "InvalidRequest"}
  PROVE  /\ StatusCode(error) \in 100..599
         /\ StatusCode(error) = 400 => error \in {"RequestTooLarge", "Validation",
                                               "InvalidRequest"}
BY DEF StatusCode

\* A request that fails keeps the invariant.
LEMMA FailKeeps ==
  ASSUME PathInv, NEW r \in Requests, req[r].pc \in Moving,
         NEW error \in {"Internal", "RequestTooLarge", "NoHealthyKeys",
                        "CircuitBreakerOpen", "Validation", "RedisOperation",
                        "RedisConnection", "InvalidRequest"},
         Fail(r, error),
         (error \in {"RequestTooLarge", "Validation", "InvalidRequest"}
          /\ req[r].attempts = 0) =>
           \E limit \in req[r].limits : OverLimit(req[r].shape, limit)
  PROVE  PathInv'
<1>1. AnswerOK(req[r].shape, Made(StatusCode(error)))
  <2>1. StatusCode(error) \in 100..599
    BY StatusesOK
  <2>2. QED
    BY <2>1, MadeOK
<1>2. Answer(r, Made(StatusCode(error)))
  BY DEF Fail
<1>3. Made(StatusCode(error)).status = StatusCode(error)
  BY DEF Made, NoAnswer
<1>4. QED
  BY <1>1, <1>2, <1>3, StatusesOK, AnswerKeeps

\* What the errors of the libraries become.
LEMMA ConvertedOK ==
  /\ Converted("axum") = "Internal"
  /\ Converted("url") = "InvalidRequest"
  /\ RedisErrors = {"RedisOperation", "RedisConnection"}
BY DEF Converted, RedisErrors

\* A request that comes.
LEMMA ArriveStep ==
  ASSUME PathInv, NEW r \in Requests, Arrive(r)
  PROVE  PathInv'
<1> DEFINE x == [req[r] EXCEPT !.pc = "open", !.headers = req[r].shape.headers,
                               !.length = req[r].shape.length,
                               !.limits = {settings.limit}]
<1>1. RequestOK(req[r]) /\ DOMAIN req = Requests /\ req[r].pc = "idle"
  BY DEF PathInv, Arrive
<1>2. /\ x.pc = "open" /\ x.answer = req[r].answer /\ x.last = req[r].last
      /\ x.shape = req[r].shape /\ x.headers = req[r].shape.headers
      /\ x.length = req[r].shape.length /\ x.limits = {settings.limit}
      /\ x.attempts = req[r].attempts /\ x.sent = req[r].sent
      /\ DOMAIN x = DOMAIN req[r]
  BY <1>1 DEF RequestOK, RequestTyped
<1>3. /\ req' = [req EXCEPT ![r] = x] /\ total' = total + 1
      /\ UNCHANGED <<settings, reloads, errors>>
  BY <1>1 DEF Arrive
<1> HIDE DEF x
<1>4. RequestTyped(x) /\ Measures(x)
  BY <1>1, <1>2, MessagesAssumption
  DEF RequestOK, RequestTyped, Measures, Places, PathInv
<1>5. TokensJudged(x)
  BY <1>1, <1>2 DEF RequestOK, TokensJudged
<1>6. RequestOK(x)
  BY <1>1, <1>2, <1>4, <1>5 DEF RequestOK
<1>7. QED
  BY <1>1, <1>2, <1>3, <1>6, ArriveKeeps DEF Moving, Places

\* A request that is prepared: a body that is rewritten takes its length along.
LEMMA PrepareStep ==
  ASSUME PathInv, NEW r \in Requests, Prepare(r)
  PROVE  PathInv'
<1> DEFINE length == req[r].shape.rewritten
           x == IF Injects(req[r].shape)
                THEN [req[r] EXCEPT
                        !.pc = "enter", !.length = length,
                        !.headers = Inserted(req[r].headers, "content-length", length)]
                ELSE [req[r] EXCEPT !.pc = "enter"]
<1>1. RequestOK(req[r]) /\ DOMAIN req = Requests /\ req[r].pc = "open"
  BY DEF PathInv, Prepare, Routed
<1>2. /\ x.pc = "enter" /\ x.answer = req[r].answer /\ x.last = req[r].last
      /\ x.shape = req[r].shape /\ x.limits = req[r].limits
      /\ x.attempts = req[r].attempts /\ x.sent = req[r].sent
      /\ DOMAIN x = DOMAIN req[r]
  BY <1>1 DEF RequestOK, RequestTyped
<1>3. \/ x.length = req[r].length /\ x.headers = req[r].headers
      \/ /\ x.length = length
         /\ x.headers = Inserted(req[r].headers, "content-length", length)
  BY <1>1 DEF RequestOK, RequestTyped
<1>4. /\ req' = [req EXCEPT ![r] = x]
      /\ UNCHANGED <<settings, reloads, total, errors>>
  <2>1. CASE Injects(req[r].shape)
    <3>1. x = [req[r] EXCEPT
                 !.pc = "enter", !.length = length,
                 !.headers = Inserted(req[r].headers, "content-length", length)]
      BY <2>1
    <3> HIDE DEF x
    <3>2. QED
      BY <1>1, <2>1, <3>1 DEF Prepare
  <2>2. CASE ~Injects(req[r].shape)
    BY <1>1, <2>2 DEF Prepare
  <2>3. QED
    BY <2>1, <2>2
<1>5. Inserted(req[r].headers, "content-length", length)["content-length"] = length
  BY DEF Inserted
<1>6. length \in Nat
  BY <1>1, MessagesAssumption DEF RequestOK, RequestTyped
<1> HIDE DEF x, length
<1>7. RequestTyped(x) /\ Measures(x)
  BY <1>1, <1>2, <1>3, <1>5, <1>6 DEF RequestOK, RequestTyped, Measures, Places
<1>8. TokensJudged(x)
  BY <1>1, <1>2 DEF RequestOK, TokensJudged
<1>9. RequestOK(x)
  BY <1>1, <1>2, <1>7, <1>8 DEF RequestOK
<1>10. QED
  BY <1>1, <1>2, <1>4, <1>9, MoveKeeps DEF Moving, Places

\* An attempt with a key of its own.
LEMMA DrawStep ==
  ASSUME PathInv, NEW r \in Requests, NEW key \in Keys, Draw(r, key)
  PROVE  PathInv'
<1> DEFINE x == [req[r] EXCEPT !.pc = "send", !.sent = Outgoing(r, key),
                               !.attempts = req[r].attempts + 1]
<1>1. /\ RequestOK(req[r]) /\ DOMAIN req = Requests /\ req[r].pc = "draw"
      /\ req[r].attempts < MaxAttempts
  BY DEF PathInv, Draw
<1>2. /\ x.pc = "send" /\ x.answer = req[r].answer /\ x.last = req[r].last
      /\ x.shape = req[r].shape /\ x.headers = req[r].headers
      /\ x.length = req[r].length /\ x.limits = req[r].limits
      /\ x.attempts = req[r].attempts + 1 /\ x.sent = Outgoing(r, key)
      /\ DOMAIN x = DOMAIN req[r]
  BY <1>1 DEF RequestOK, RequestTyped
<1>3. /\ req' = [req EXCEPT ![r] = x]
      /\ UNCHANGED <<settings, reloads, total, errors>>
  BY <1>1 DEF Draw
<1> HIDE DEF x
<1>4. Framed(x.sent) /\ CarriesOwnKey(x) /\ x.sent.key = key
  <2>1. /\ Framed(Outgoing(r, key))
        /\ Outgoing(r, key).key = key
        /\ Outgoing(r, key).headers["authorization"] = key
        /\ "x-goog-api-key" \notin DOMAIN Outgoing(r, key).headers
        /\ Outgoing(r, key).query = req[r].shape.query \o <<key>>
    BY <1>1, OutgoingOK
  <2>2. x.sent = Outgoing(r, key) /\ x.shape = req[r].shape
    BY <1>2
  <2>3. QED
    BY <2>1, <2>2, Zenon DEF CarriesOwnKey
<1>5. RequestTyped(x) /\ Measures(x)
  BY <1>1, <1>2, <1>4, BoundsAssumption
  DEF RequestOK, RequestTyped, Measures, Places
<1>6. TokensJudged(x)
  <2>1. req[r].attempts \in Nat /\ req[r].answer.status = 0
    BY <1>1, BoundsAssumption DEF RequestOK, RequestTyped, TokensJudged
  <2>2. QED
    BY <1>1, <1>2, <2>1 DEF RequestOK, TokensJudged
<1>7. RequestOK(x)
  BY <1>1, <1>2, <1>4, <1>5, <1>6 DEF RequestOK
<1>8. QED
  BY <1>1, <1>2, <1>3, <1>7, MoveKeeps DEF Moving, Places

\* A penalty recorded: the response, read to its end, is kept.
LEMMA RetryStep ==
  ASSUME PathInv, NEW r \in Requests, Retry(r)
  PROVE  PathInv'
<1>1. PICK reply \in Replies :
        /\ Verdict(r, reply)
        /\ req' = [req EXCEPT ![r] = [@ EXCEPT !.pc = "draw", !.last = reply]]
        /\ UNCHANGED <<settings, reloads, total, errors>>
  BY DEF Retry
<1> DEFINE x == [req[r] EXCEPT !.pc = "draw", !.last = reply]
<1>2. RequestOK(req[r]) /\ DOMAIN req = Requests
  BY DEF PathInv
<1>3. /\ x.pc = "draw" /\ x.answer = req[r].answer /\ x.last = reply
      /\ x.shape = req[r].shape /\ x.headers = req[r].headers
      /\ x.length = req[r].length /\ x.limits = req[r].limits
      /\ x.attempts = req[r].attempts /\ x.sent = req[r].sent
      /\ DOMAIN x = DOMAIN req[r]
  BY <1>2 DEF RequestOK, RequestTyped
<1>4. req[r].pc = "sent" /\ ~reply.breaks
  BY <1>1 DEF Verdict
<1>5. req' = [req EXCEPT ![r] = x]
  BY <1>1, <1>2
<1> HIDE DEF x
<1>6. RequestTyped(x) /\ Measures(x)
  BY <1>2, <1>3 DEF RequestOK, RequestTyped, Measures, Places
<1>7. TokensJudged(x)
  BY <1>2, <1>3, <1>4 DEF RequestOK, TokensJudged
<1>8. RequestOK(x)
  BY <1>2, <1>3, <1>4, <1>6, <1>7 DEF RequestOK
<1>9. QED
  BY <1>1, <1>3, <1>4, <1>5, <1>8, MoveKeeps DEF Moving, Places

\* No key is left: the client gets an error, or the response kept for it.
LEMMA NoKeyLeftStep ==
  ASSUME PathInv, NEW r \in Requests, NoKeyLeft(r)
  PROVE  PathInv'
<1>1. RequestOK(req[r]) /\ req[r].pc = "draw"
  BY DEF PathInv, NoKeyLeft
<1>2. req[r].pc \in Moving
  BY <1>1 DEF Moving, Places
<1>3. CASE req[r].last = NoReply
  <2>1. Fail(r, "NoHealthyKeys")
    BY <1>3 DEF NoKeyLeft
  <2>2. QED
    BY <1>2, <2>1, FailKeeps
<1>4. CASE req[r].last # NoReply
  <2>1. Answer(r, Made(502)) \/ Answer(r, Passed(req[r].last))
    BY <1>4 DEF NoKeyLeft
  <2>2. req[r].last \in Replies /\ ~req[r].last.breaks
    BY <1>1, <1>4 DEF RequestOK, RequestTyped
  <2>3. AnswerOK(req[r].shape, Passed(req[r].last))
    BY <2>2, PassedOK
  <2>4. AnswerOK(req[r].shape, Made(502))
    BY MadeOK
  <2>5. ~(req[r].attempts = 0)
    BY <1>1, <1>4 DEF RequestOK, TokensJudged
  <2>6. QED
    BY <1>2, <2>1, <2>3, <2>4, <2>5, AnswerKeeps
<1>5. QED
  BY <1>3, <1>4

\* The client goes away.
LEMMA CancelStep ==
  ASSUME PathInv, NEW r \in Requests, Cancel(r)
  PROVE  PathInv'
<1> DEFINE x == [req[r] EXCEPT !.pc = "done", !.last = NoReply]
<1>1. RequestOK(req[r]) /\ DOMAIN req = Requests
  BY DEF PathInv
<1>2. /\ x.pc = "done" /\ x.answer = req[r].answer /\ x.last = NoReply
      /\ x.shape = req[r].shape /\ x.headers = req[r].headers
      /\ x.length = req[r].length /\ x.limits = req[r].limits
      /\ x.attempts = req[r].attempts /\ x.sent = req[r].sent
      /\ DOMAIN x = DOMAIN req[r]
  BY <1>1 DEF RequestOK, RequestTyped
<1>3. req' = [req EXCEPT ![r] = x] /\ UNCHANGED <<settings, reloads, total, errors>>
  BY <1>1 DEF Cancel
<1>4. req[r].pc \in Moving
  BY <1>1 DEF Cancel, InFlight, RequestOK, RequestTyped, Moving
<1> HIDE DEF x
<1>5. RequestTyped(x) /\ Measures(x)
  BY <1>1, <1>2 DEF RequestOK, RequestTyped, Measures, Places
<1>6. TokensJudged(x)
  BY <1>1, <1>2, <1>4 DEF RequestOK, TokensJudged, Moving
<1>7. RequestOK(x)
  BY <1>1, <1>2, <1>5, <1>6 DEF RequestOK
<1>8. QED
  BY <1>2, <1>3, <1>4, <1>7, LeaveKeeps

\* A reload reaches every request on its way, and changes no message.
LEMMA ReloadStep ==
  ASSUME PathInv, Reload
  PROVE  PathInv'
<1>1. /\ settings' \in Settings /\ reloads' \in 0..MaxReloads
      /\ UNCHANGED <<total, errors>>
  BY BoundsAssumption DEF PathInv, Reload
<1>2. DOMAIN req' = Requests
  BY DEF Reload
<1>3. ASSUME NEW r \in Requests
      PROVE  RequestOK(req'[r]) /\ req'[r].pc = req[r].pc
  <2> DEFINE x == [req[r] EXCEPT !.limits = @ \cup {settings'.limit}]
  <2>1. RequestOK(req[r])
    BY DEF PathInv
  <2>2. req'[r] = req[r] \/ req'[r] = x
    BY DEF Reload
  <2>3. /\ x.pc = req[r].pc /\ x.answer = req[r].answer /\ x.last = req[r].last
        /\ x.shape = req[r].shape /\ x.headers = req[r].headers
        /\ x.length = req[r].length
        /\ x.limits = req[r].limits \cup {settings'.limit}
        /\ x.attempts = req[r].attempts /\ x.sent = req[r].sent
        /\ DOMAIN x = DOMAIN req[r]
    BY <2>1 DEF RequestOK, RequestTyped
  <2> HIDE DEF x
  <2>4. RequestTyped(x) /\ Measures(x)
    BY <1>1, <2>1, <2>3 DEF RequestOK, RequestTyped, Measures
  <2>5. TokensJudged(x)
    BY <2>1, <2>3 DEF RequestOK, TokensJudged
  <2>6. RequestOK(x)
    BY <2>1, <2>3, <2>4, <2>5 DEF RequestOK, CarriesOwnKey
  <2>7. QED
    BY <2>1, <2>2, <2>3, <2>6
<1>4. Came' = Came /\ InFlight' = InFlight
  BY <1>3 DEF Came, InFlight
<1>5. ASSUME NEW r \in InFlight PROVE settings'.limit \in req'[r].limits
  <2>1. r \in Requests /\ RequestOK(req[r])
    BY DEF PathInv, InFlight
  <2>2. req'[r] = [req[r] EXCEPT !.limits = @ \cup {settings'.limit}]
    BY <2>1 DEF Reload
  <2>3. QED
    BY <2>1, <2>2 DEF RequestOK, RequestTyped
<1>6. QED
  BY <1>1, <1>2, <1>3, <1>4, <1>5 DEF PathInv, CountersOK
-----------------------------------------------------------------------------
\* Every other step of a request is an answer or goes on to the next place.
LEMMA ProceedStep ==
  ASSUME PathInv, NEW r \in Requests, Proceed(r)
  PROVE  PathInv'
<1>1. CASE Arrive(r)
  BY <1>1, ArriveStep
<1>2. CASE RefuseLength(r) \/ NotFound(r) \/ Health(r) \/ LoadErrors(r)
  <2>1. req[r].pc \in Moving
    BY <1>2 DEF RefuseLength, NotFound, Health, LoadErrors, Routed, Moving, Places
  <2>2. PICK status \in {200, 404, 413} : Answer(r, Made(status))
    BY <1>2 DEF RefuseLength, NotFound, Health, LoadErrors
  <2>3. AnswerOK(req[r].shape, Made(status))
    BY MadeOK
  <2>4. Made(status).status = status
    BY DEF Made, NoAnswer
  <2>5. QED
    BY <2>1, <2>2, <2>3, <2>4, AnswerKeeps
<1>3. CASE LoadTotal(r) \/ EnterLoop(r) \/ Send(r)
  <2>1. PICK place \in {"scrape", "draw", "sent"} :
          /\ Goes(r, place)
          /\ place = "sent" => req[r].pc = "send"
          /\ place = "draw" => ~OverLimit(req[r].shape, settings.limit)
    BY <1>3 DEF LoadTotal, EnterLoop, Send
  <2>2. req[r].pc \in Moving /\ place \in Moving /\ place # "send"
    BY <1>3, <2>1 DEF LoadTotal, EnterLoop, Send, Routed, Moving, Places
  <2>3. settings.limit \in req[r].limits
    BY <2>2 DEF PathInv, InFlight, Moving
  <2>4. QED
    BY <2>1, <2>2, <2>3, GoesKeeps
<1>4. CASE \/ BodyLost(r) \/ RefuseTokens(r) \/ RefuseTokensAgain(r)
           \/ DrawFails(r) \/ AttemptFails(r) \/ ReplyLost(r) \/ ReportFails(r)
  <2>1. req[r].pc \in Moving
    BY <1>4 DEF BodyLost, RefuseTokens, RefuseTokensAgain, DrawFails, AttemptFails,
       ReplyLost, ReportFails, Verdict, Routed, Moving, Places
  <2>2. settings.limit \in req[r].limits
    BY <2>1 DEF PathInv, InFlight, Moving
  <2>3. PICK error \in {"Internal", "RequestTooLarge", "NoHealthyKeys",
                        "CircuitBreakerOpen", "Validation", "RedisOperation",
                        "RedisConnection", "InvalidRequest"} :
          /\ Fail(r, error)
          /\ error = "RequestTooLarge" => OverLimit(req[r].shape, settings.limit)
          /\ error \in {"Validation", "InvalidRequest"} => req[r].pc \in {"send", "sent"}
    <3>1. CASE BodyLost(r) \/ RefuseTokens(r) \/ RefuseTokensAgain(r) \/ ReplyLost(r)
      BY <3>1, ConvertedOK DEF BodyLost, RefuseTokens, RefuseTokensAgain, ReplyLost
    <3>2. CASE DrawFails(r)
      BY <3>2, ConvertedOK DEF DrawFails
    <3>3. CASE AttemptFails(r)
      BY <3>3, ConvertedOK DEF AttemptFails
    <3>4. CASE ReportFails(r)
      BY <3>4, ConvertedOK DEF ReportFails, Verdict
    <3>5. QED
      BY <1>4, <3>1, <3>2, <3>3, <3>4
  <2>4. req[r].pc \in {"send", "sent"} => ~(req[r].attempts = 0)
    BY DEF PathInv, RequestOK, TokensJudged
  <2>5. QED
    BY <2>1, <2>2, <2>3, <2>4, FailKeeps
<1>5. CASE Prepare(r)
  BY <1>5, PrepareStep
<1>6. CASE NoKeyLeft(r)
  BY <1>6, NoKeyLeftStep
<1>7. CASE HandOn(r) \/ Return(r)
  <2>1. PICK reply \in Replies :
          /\ Answer(r, Passed(reply))
          /\ reply.breaks => Streams(req[r].shape, reply)
    BY <1>7 DEF HandOn, Return, Verdict
  <2>2. req[r].pc = "sent" /\ req[r].pc \in Moving
    BY <1>7 DEF HandOn, Return, Verdict, Moving, Places
  <2>3. AnswerOK(req[r].shape, Passed(reply))
    BY <2>1, PassedOK DEF Streams
  <2>4. ~(req[r].attempts = 0)
    BY <2>2 DEF PathInv, RequestOK, TokensJudged
  <2>5. QED
    BY <2>1, <2>2, <2>3, <2>4, AnswerKeeps
<1>8. CASE Retry(r)
  BY <1>8, RetryStep
<1>9. CASE \E key \in Keys : Draw(r, key)
  BY <1>9, DrawStep
<1>10. QED
  BY <1>1, <1>2, <1>3, <1>4, <1>5, <1>6, <1>7, <1>8, <1>9 DEF Proceed

\* Every step preserves the invariant.
LEMMA NextPath ==
  ASSUME PathInv, [Next]_vars
  PROVE  PathInv'
<1>1. CASE \E r \in Requests : Proceed(r) \/ Cancel(r)
  BY <1>1, ProceedStep, CancelStep
<1>2. CASE Reload
  BY <1>2, ReloadStep
<1>3. CASE UNCHANGED vars
  BY <1>3 DEF vars, PathInv, CountersOK, Came, InFlight
<1>4. QED
  BY <1>1, <1>2, <1>3 DEF Next, Terminated

\* The invariant holds in every state.
LEMMA PathInvariant == Spec => []PathInv
<1>1. Init => PathInv
  BY InitPath
<1>2. PathInv /\ [Next]_vars => PathInv'
  BY NextPath
<1>3. QED
  BY <1>1, <1>2, PTL DEF Spec

\* Every variable keeps its type, and no request is counted twice.
THEOREM RequestPathTypeCorrect == Spec => []TypeOK
<1>1. ASSUME PathInv PROVE TypeOK
  <2>1. total \in Nat /\ total <= Cardinality(Requests) /\ errors <= total
    BY <1>1, Counted DEF PathInv, CountersOK
  <2>2. Cardinality(Requests) \in Nat
    BY RequestsAssumption, FS_CardinalityType
  <2>3. total \in 0..Cardinality(Requests) /\ errors \in 0..Cardinality(Requests)
    BY <1>1, <2>1, <2>2 DEF PathInv, CountersOK
  <2>4. ASSUME NEW r \in Requests
        PROVE  RequestTyped(req[r]) /\ AnswerOK(req[r].shape, req[r].answer)
    BY <1>1 DEF PathInv, RequestOK
  <2>5. QED
    BY <1>1, <2>3, <2>4 DEF TypeOK, PathInv, RequestTyped, AnswerOK, Places
<1>2. QED
  BY <1>1, PathInvariant, PTL

\* Upstream and to the client a message has one framing, that of its own body,
\* on a first attempt and on a retry (proxy.rs:299-308, handlers/mod.rs:215-227).
THEOREM AllMessagesFramed == Spec => []MessagesFramed
<1>1. PathInv => MessagesFramed
  BY DEF PathInv, RequestOK, AnswerOK, MessagesFramed
<1>2. QED
  BY <1>1, PathInvariant, PTL

\* Whatever was drawn before, an attempt carries the key drawn for it and no
\* other (handlers/mod.rs:81-87, proxy.rs:283-327).
THEOREM OwnKeyCarried == Spec => []AttemptsCarryOwnKey
<1>1. PathInv => AttemptsCarryOwnKey
  BY DEF PathInv, RequestOK, CarriesOwnKey, AttemptsCarryOwnKey
<1>2. QED
  BY <1>1, PathInvariant, PTL

\* Only a client that asked for a stream may see its response break off
\* (proxy_loop.rs:143, proxy.rs:119).
THEOREM TruncationAskedFor == Spec => []NoSilentTruncation
<1>1. PathInv => NoSilentTruncation
  BY DEF PathInv, RequestOK, AnswerOK, NoSilentTruncation
<1>2. QED
  BY <1>1, PathInvariant, PTL

\* The counters never show more errors than requests that are over
\* (metrics/middleware.rs:17-25).
THEOREM ErrorsCounted == Spec => []ErrorsHaveRequests
<1>1. PathInv => ErrorsHaveRequests
  BY DEF PathInv, CountersOK, ErrorsHaveRequests
<1>2. QED
  BY <1>1, PathInvariant, PTL
-----------------------------------------------------------------------------
\* What each factor of the estimate can be.
LEMMA FactorsAre ==
  ASSUME NEW text
  PROVE  /\ WordFactor(text) \in {<<19, 20>>, <<11, 10>>, <<1, 1>>}
         /\ UnicodeFactor(text) \in {<<6, 5>>, <<11, 10>>, <<21, 20>>, <<1, 1>>}
         /\ EmojiFactor(text) \in {<<11, 10>>, <<1, 1>>}
         /\ MathFactor(text) \in {<<11, 10>>, <<21, 20>>, <<1, 1>>}
         /\ CodeFactor(text) \in {<<13, 10>>, <<6, 5>>, <<11, 10>>, <<1, 1>>}
         /\ JsonFactor(text) \in {<<21, 20>>, <<1, 1>>}
         /\ LengthFactor(text) \in {<<23, 25>>, <<19, 20>>, <<1, 1>>}
BY DEF WordFactor, UnicodeFactor, EmojiFactor, MathFactor, CodeFactor, JsonFactor,
   LengthFactor

\* A fraction x of the base count that is at least low and at most high of it.
Between(base, x, low, high) ==
  /\ x[1] \in Nat /\ x[2] \in Nat \ {0} /\ base * x[2] \in Nat
  /\ low[1] * (base * x[2]) <= low[2] * x[1]
  /\ high[2] * x[1] <= high[1] * (base * x[2])

\* A factor f that takes what is between low and high to between low2 and high2.
Fraction(p) == p[1] \in Nat \ {0} /\ p[2] \in Nat \ {0}

Takes(f, low, high, low2, high2) ==
  /\ Fraction(f) /\ Fraction(low) /\ Fraction(high) /\ Fraction(low2) /\ Fraction(high2)
  /\ (low2[1] * f[2]) * low[2] <= (low2[2] * f[1]) * low[1]
  /\ (high2[2] * f[1]) * high[1] <= (high2[1] * f[2]) * high[2]

\* What is more d times over is more.
LEMMA Cancelled ==
  ASSUME NEW d \in Nat \ {0}, NEW a \in Int, NEW b \in Int, a * d < b * d
  PROVE  a < b
<1>1. ASSUME a >= b PROVE FALSE
  <2>1. (a - b) * d >= 0
    BY <1>1
  <2>2. QED
    BY <2>1
<1>2. QED
  BY <1>1

\* A bound l/m on a/b times a factor n/d that takes it to at most p/q.
LEMMA BoundTimes ==
  ASSUME NEW a \in Nat, NEW b \in Nat, NEW n \in Nat, NEW d \in Nat,
         NEW l \in Nat, NEW m \in Nat \ {0}, NEW p \in Nat, NEW q \in Nat,
         l * b <= m * a, (p * d) * m <= (q * n) * l
  PROVE  p * (b * d) <= q * (a * n)
<1> DEFINE u == (p * d) * m
           v == (q * n) * l
<1>1. \A x, y, z \in Nat : x <= y => x * z <= y * z
  <2>1. ASSUME NEW x \in Nat, NEW y \in Nat, NEW z \in Nat, x <= y
        PROVE  x * z <= y * z
    <3>1. (y - x) * z >= 0
      BY <2>1
    <3>2. QED
      BY <3>1
  <2>2. QED
    BY <2>1
<1>2. u \in Nat /\ v \in Nat /\ q * n \in Nat /\ l * b \in Nat /\ m * a \in Nat
  OBVIOUS
<1>3. u * b <= v * b
  <2>1. u <= v
    OBVIOUS
  <2> HIDE DEF u, v
  <2>2. QED
    BY <1>1, <1>2, <2>1
<1>4. (l * b) * (q * n) <= (m * a) * (q * n)
  BY <1>1, <1>2
<1>5. /\ u * b = (p * (b * d)) * m
      /\ v * b = (l * b) * (q * n)
      /\ (m * a) * (q * n) = (q * (a * n)) * m
  OBVIOUS
<1>6. (p * (b * d)) * m <= (q * (a * n)) * m
  BY <1>2, <1>3, <1>4, <1>5
<1>7. p * (b * d) \in Int /\ q * (a * n) \in Int
  OBVIOUS
<1>8. QED
  <2> DEFINE y == p * (b * d)
             z == q * (a * n)
  <2>1. y \in Int /\ z \in Int /\ y * m <= z * m
    BY <1>6, <1>7
  <2> HIDE DEF y, z
  <2>2. ~(z * m < y * m)
    BY <2>1
  <2>3. ~(z < y)
    <3>1. ASSUME z < y PROVE FALSE
      <4>1. (y - z) * m > 0
        BY <2>1, <3>1
      <4>2. QED
        BY <2>1, <2>2, <4>1
    <3>2. QED
      BY <3>1
  <2>4. QED
    BY <2>1, <2>3 DEF y, z

\* The bounds on a fraction move with every factor.
LEMMA BetweenTimes ==
  ASSUME NEW base \in Nat, NEW x, NEW f, NEW low, NEW high, NEW low2, NEW high2,
         Between(base, x, low, high), Takes(f, low, high, low2, high2)
  PROVE  Between(base, Times(x, f), low2, high2)
<1> DEFINE a == x[1]
           d == x[2]
           b == base * d
           n == f[1]
           g == f[2]
           l == low[1]
           m == low[2]
           h == high[1]
           k == high[2]
           l2 == low2[1]
           m2 == low2[2]
           h2 == high2[1]
           k2 == high2[2]
<1>1. Times(x, f)[1] = a * n /\ Times(x, f)[2] = d * g
  BY DEF Times
<1>2. a \in Nat /\ d \in Nat \ {0} /\ b \in Nat /\ l * b <= m * a /\ k * a <= h * b
  BY DEF Between
<1>3. /\ n \in Nat \ {0} /\ g \in Nat \ {0}
      /\ l \in Nat \ {0} /\ m \in Nat \ {0} /\ h \in Nat \ {0} /\ k \in Nat \ {0}
      /\ l2 \in Nat /\ m2 \in Nat /\ h2 \in Nat /\ k2 \in Nat
  BY DEF Takes, Fraction
<1>4. (l2 * g) * m <= (m2 * n) * l /\ (k2 * n) * h <= (h2 * g) * k
  BY DEF Takes
<1>5. base * (d * g) = b * g
  <2>1. \A y, z \in Nat : base * (y * z) = (base * y) * z
    OBVIOUS
  <2>2. QED
    BY <1>2, <1>3, <2>1
<1> HIDE DEF a, d, b, n, g, l, m, h, k, l2, m2, h2, k2
<1>6. a * n \in Nat /\ d * g \in Nat \ {0} /\ b * g \in Nat
  <2>1. \A y, z \in Nat : y * z \in Nat
    OBVIOUS
  <2>2. \A y, z \in Nat \ {0} : y * z \in Nat \ {0}
    OBVIOUS
  <2>3. QED
    BY <1>2, <1>3, <2>1, <2>2
<1>7. l2 * (b * g) <= m2 * (a * n)
  BY <1>2, <1>3, <1>4, BoundTimes
<1>8. k2 * (a * n) <= h2 * (b * g)
  BY <1>2, <1>3, <1>4, BoundTimes
<1>9. QED
  BY <1>1, <1>5, <1>6, <1>7, <1>8 DEF Between, l2, m2, h2, k2

\* The base count times all factors: from 874 to 2181 thousandths of it.
LEMMA CalibratedBetween ==
  ASSUME NEW base \in Nat, NEW text
  PROVE  Between(base, Calibrated(base, text), <<874, 1000>>, <<2181, 1000>>)
<1> DEFINE w == Times(<<base, 1>>, WordFactor(text))
           u == Times(w, UnicodeFactor(text))
           e == Times(u, EmojiFactor(text))
           m == Times(e, MathFactor(text))
           c == Times(m, CodeFactor(text))
           j == Times(c, JsonFactor(text))
           l == Times(j, LengthFactor(text))
<1>0. Calibrated(base, text) = l
  BY DEF Calibrated
<1>1. Between(base, <<base, 1>>, <<1, 1>>, <<1, 1>>)
  BY DEF Between
<1>2. Between(base, w, <<19, 20>>, <<11, 10>>)
  <2>1. WordFactor(text) \in {<<19, 20>>, <<11, 10>>, <<1, 1>>}
    BY FactorsAre
  <2>2. Takes(WordFactor(text), <<1, 1>>, <<1, 1>>,
              <<19, 20>>, <<11, 10>>)
    BY SMT, <2>1 DEF Takes, Fraction
  <2>3. QED
    BY <1>1, <2>2, BetweenTimes
<1> HIDE DEF w
<1>3. Between(base, u, <<19, 20>>, <<33, 25>>)
  <2>1. UnicodeFactor(text) \in {<<6, 5>>, <<11, 10>>, <<21, 20>>, <<1, 1>>}
    BY FactorsAre
  <2>2. Takes(UnicodeFactor(text), <<19, 20>>, <<11, 10>>,
              <<19, 20>>, <<33, 25>>)
    BY SMT, <2>1 DEF Takes, Fraction
  <2>3. QED
    BY <1>2, <2>2, BetweenTimes
<1> HIDE DEF u
<1>4. Between(base, e, <<19, 20>>, <<363, 250>>)
  <2>1. EmojiFactor(text) \in {<<11, 10>>, <<1, 1>>}
    BY FactorsAre
  <2>2. Takes(EmojiFactor(text), <<19, 20>>, <<33, 25>>,
              <<19, 20>>, <<363, 250>>)
    BY SMT, <2>1 DEF Takes, Fraction
  <2>3. QED
    BY <1>3, <2>2, BetweenTimes
<1> HIDE DEF e
<1>5. Between(base, m, <<19, 20>>, <<3993, 2500>>)
  <2>1. MathFactor(text) \in {<<11, 10>>, <<21, 20>>, <<1, 1>>}
    BY FactorsAre
  <2>2. Takes(MathFactor(text), <<19, 20>>, <<363, 250>>,
              <<19, 20>>, <<3993, 2500>>)
    BY SMT, <2>1 DEF Takes, Fraction
  <2>3. QED
    BY <1>4, <2>2, BetweenTimes
<1> HIDE DEF m
<1>6. Between(base, c, <<19, 20>>, <<51909, 25000>>)
  <2>1. CodeFactor(text) \in {<<13, 10>>, <<6, 5>>, <<11, 10>>, <<1, 1>>}
    BY FactorsAre
  <2>2. Takes(CodeFactor(text), <<19, 20>>, <<3993, 2500>>,
              <<19, 20>>, <<51909, 25000>>)
    BY SMT, <2>1 DEF Takes, Fraction
  <2>3. QED
    BY <1>5, <2>2, BetweenTimes
<1> HIDE DEF c
<1>7. Between(base, j, <<19, 20>>, <<1090089, 500000>>)
  <2>1. JsonFactor(text) \in {<<21, 20>>, <<1, 1>>}
    BY FactorsAre
  <2>2. Takes(JsonFactor(text), <<19, 20>>, <<51909, 25000>>,
              <<19, 20>>, <<1090089, 500000>>)
    BY SMT, <2>1 DEF Takes, Fraction
  <2>3. QED
    BY <1>6, <2>2, BetweenTimes
<1> HIDE DEF j
<1>8. Between(base, l, <<874, 1000>>, <<2181, 1000>>)
  <2>1. LengthFactor(text) \in {<<23, 25>>, <<19, 20>>, <<1, 1>>}
    BY FactorsAre
  <2>2. Takes(LengthFactor(text), <<19, 20>>, <<1090089, 500000>>,
              <<874, 1000>>, <<2181, 1000>>)
    BY SMT, <2>1 DEF Takes, Fraction
  <2>3. QED
    BY <1>7, <2>2, BetweenTimes
<1>9. QED
  BY <1>0, <1>8

\* The number nearest to n/d, and of two the higher.
Nearest(q, n, d) ==
  q \in Nat /\ (2 * q) * d <= 2 * n + d /\ 2 * n + d < (2 * q + 2) * d

\* Rounding up a half.
LEMMA RoundedNearest ==
  ASSUME NEW n \in Nat, NEW d \in Nat \ {0}
  PROVE  Nearest(Rounded(n, d), n, d)
<1> DEFINE q == (2 * n + d) \div (2 * d)
           r == (2 * n + d) % (2 * d)
<1>1. 2 * n + d \in Nat /\ 2 * d \in Nat \ {0}
  OBVIOUS
<1>2. \A a \in Nat, b \in Nat \ {0} :
        /\ a \div b \in Nat /\ a % b \in 0..(b - 1)
        /\ a = b * (a \div b) + (a % b)
  OBVIOUS
<1>3. q \in Nat /\ r \in 0..(2 * d - 1) /\ 2 * n + d = (2 * d) * q + r
  BY <1>1, <1>2
<1>4. Rounded(n, d) = q
  BY DEF Rounded
<1> HIDE DEF q, r
<1>5. (2 * d) * q = (2 * q) * d /\ (2 * q + 2) * d = (2 * q) * d + 2 * d
  BY <1>3
<1>6. QED
  BY <1>3, <1>4, <1>5 DEF Nearest

\* An estimate is a number of tokens.
LEMMA EstimateType ==
  ASSUME NEW text \in Text
  PROVE  Estimate(text, Tiktoken) \in Nat
<1> DEFINE base == BaseCount(text, Tiktoken)
           x == Calibrated(base, text)
<1>1. base \in Nat
  BY DEF BaseCount, Text
<1>2. x[1] \in Nat /\ x[2] \in Nat \ {0}
  BY <1>1, CalibratedBetween DEF Between
<1>3. Rounded(x[1], x[2]) \in Nat
  BY <1>2, RoundedNearest DEF Nearest
<1>4. QED
  BY <1>3 DEF Estimate

\* An estimate that is within a limit, or above it, says so much of the text.
LEMMA EstimateWithin ==
  ASSUME NEW text \in Text, NEW limit \in Nat \ {0}
  PROVE  /\ Estimate(text, Tiktoken) <= limit =>
              874 * BaseCount(text, Tiktoken) < 1000 * limit + 500
         /\ Estimate(text, Tiktoken) > limit =>
              ~(2181 * BaseCount(text, Tiktoken) < 1000 * limit + 500)
<1> DEFINE base == BaseCount(text, Tiktoken)
           x == Calibrated(base, text)
           n == x[1]
           d == x[2]
           e == Rounded(n, d)
<1>1. base \in Nat
  BY DEF BaseCount, Text
<1>2. Between(base, x, <<874, 1000>>, <<2181, 1000>>)
  BY <1>1, CalibratedBetween
<1>3. Estimate(text, Tiktoken) = IF e = 0 THEN 1 ELSE e
  BY DEF Estimate
<1> HIDE DEF base, x
<1>4. /\ n \in Nat /\ d \in Nat \ {0} /\ base * d \in Nat
      /\ 874 * (base * d) <= 1000 * n
      /\ 1000 * n <= 2181 * (base * d)
  BY <1>2 DEF Between
<1> HIDE DEF n, d
<1>5. e \in Nat /\ (2 * e) * d <= 2 * n + d /\ 2 * n + d < (2 * e + 2) * d
  <2>1. Nearest(e, n, d)
    BY <1>4, RoundedNearest
  <2> HIDE DEF e
  <2>2. QED
    BY <2>1 DEF Nearest
<1> HIDE DEF e
<1>6. ASSUME e <= limit PROVE 874 * base < 1000 * limit + 500
  <2>1. (2 * e + 2) * d <= (2 * limit + 2) * d
    <3>1. (limit - e) * d >= 0
      BY <1>4, <1>5, <1>6
    <3>2. QED
      BY <1>4, <1>5, <3>1
  <2>2. 2 * n + d < (2 * limit + 2) * d
    BY <1>4, <1>5, <2>1
  <2>3. (874 * base) * d < (1000 * limit + 500) * d
    BY <1>1, <1>4, <2>2
  <2>4. QED
    BY <1>1, <1>4, <2>3, Cancelled
<1>7. ASSUME e > limit PROVE 1000 * limit + 500 <= 2181 * base
  <2>1. (2 * limit + 2) * d <= (2 * e) * d
    <3>1. (e - limit - 1) * d >= 0
      BY <1>4, <1>5, <1>7
    <3>2. QED
      BY <1>4, <1>5, <3>1
  <2>2. (2 * limit + 2) * d <= 2 * n + d
    BY <1>4, <1>5, <2>1
  <2>3. (1000 * limit + 500) * d <= (2181 * base) * d
    BY <1>1, <1>4, <2>2
  <2>4. ~((2181 * base) * d < (1000 * limit + 500) * d)
    BY <1>1, <1>4, <2>3
  <2>5. ASSUME 2181 * base < 1000 * limit + 500 PROVE FALSE
    <3>1. (1000 * limit + 500 - 2181 * base) * d > 0
      BY <1>1, <1>4, <2>5
    <3>2. QED
      BY <1>1, <1>4, <2>4, <3>1
  <2>6. QED
    BY <1>1, <2>5
<1>8. QED
  BY <1>1, <1>3, <1>5, <1>6, <1>7 DEF base

\* A text is only sent if some limit it met bears nearly its tokens, and refused
\* for its size only if some limit falls short of what the factors can make of
\* them, for every text, limit and reload (handlers/mod.rs:251-256).
THEOREM TokenVerdictsSound == Spec => []TokenVerdictsWarranted
<1>1. PathInv => TokenVerdictsWarranted
  <2> SUFFICES ASSUME PathInv, NEW r \in Requests, req[r].shape.text # NoText
               PROVE
      /\ req[r].pc \in {"send", "sent"} =>
           \E limit \in req[r].limits : Bears(limit, req[r].shape.text, 874)
      /\ req[r].pc = "done" /\ req[r].answer.status = 400 /\ req[r].attempts = 0 =>
           \E limit \in req[r].limits : ~Bears(limit, req[r].shape.text, 2181)
    BY DEF TokenVerdictsWarranted
  <2>1. RequestTyped(req[r]) /\ TokensJudged(req[r])
    BY DEF PathInv, RequestOK
  <2>2. req[r].shape.text \in Text /\ req[r].shape.json # "none"
    BY <2>1, TextsAssumption DEF RequestTyped
  <2>3. ASSUME NEW limit \in req[r].limits
        PROVE  /\ ~OverLimit(req[r].shape, limit) =>
                    Bears(limit, req[r].shape.text, 874)
               /\ OverLimit(req[r].shape, limit) =>
                    ~Bears(limit, req[r].shape.text, 2181)
    <3>1. CASE limit = NoLimit
      BY <3>1 DEF OverLimit, Bears
    <3>2. CASE limit # NoLimit
      <4>1. limit \in Nat \ {0}
        BY <2>1, <3>2, LimitsAssumption DEF RequestTyped
      <4>2. Estimate(req[r].shape.text, Tiktoken) \in Nat
        BY <2>2, EstimateType
      <4>3. QED
        BY <2>2, <3>2, <4>1, <4>2, EstimateWithin DEF OverLimit, Bears
    <3>3. QED
      BY <3>1, <3>2
  <2>4. QED
    BY <2>1, <2>3 DEF TokensJudged
<1>2. QED
  BY <1>1, PathInvariant, PTL
=============================================================================
