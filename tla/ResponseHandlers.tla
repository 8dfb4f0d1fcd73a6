-------------------------- MODULE ResponseHandlers --------------------------
(***************************************************************************)
(* The chain of response handlers (handlers/*.rs) that decides what the    *)
(* proxy loop does with an upstream response.  A response is abstracted to *)
(* what the handlers look at: its status, whether the body speaks of a     *)
(* timeout, whether the body holds the marker API_KEY_INVALID, and whether *)
(* a Retry-After header is present that parses as an unsigned integer.     *)
(***************************************************************************)
EXTENDS Naturals, Sequences, FiniteSetsExt

\* What process() can tell the proxy loop to do (Action, base.rs), and the
\* None with which a handler passes the response on.
ReturnToClient   == "ReturnToClient"
Terminal         == "Terminal"
RetryNextKey     == "RetryNextKey"
BlockKeyAndRetry == "BlockKeyAndRetry"
WaitFor          == "WaitFor"
Pass             == "Pass"

Action == {ReturnToClient, Terminal, RetryNextKey, BlockKeyAndRetry, WaitFor}

Response ==
  [status : Nat, timeoutText : BOOLEAN, invalidKey : BOOLEAN,
   retryAfter : BOOLEAN]

IsSuccess(resp)     == resp.status \in 200..299
IsClientError(resp) == resp.status \in 400..499
IsServerError(resp) == resp.status \in 500..599
-----------------------------------------------------------------------------
SuccessHandler(resp) ==
  IF IsSuccess(resp) THEN ReturnToClient ELSE Pass

TimeoutHandler(resp) ==
  IF \/ resp.status \in {504, 408}
     \/ IsServerError(resp) /\ resp.timeoutText
  THEN RetryNextKey
  ELSE Pass

RateLimitHandler(resp) ==
  IF resp.status # 429 THEN Pass
  ELSE IF resp.retryAfter THEN WaitFor ELSE RetryNextKey

InvalidApiKeyHandler(resp) ==
  IF resp.status = 400 /\ resp.invalidKey THEN BlockKeyAndRetry ELSE Pass

\* Mutant: every 5xx taken for a temporary one, as the catch-all still claims.
ServerErrorHandlerAny(resp) ==
  IF IsServerError(resp) THEN RetryNextKey ELSE Pass

ServerErrorHandler(resp) ==
  IF resp.status \in {500, 502, 503, 504} THEN RetryNextKey ELSE Pass

TerminalErrorHandler(resp) ==
  IF \/ IsClientError(resp) /\ resp.status \notin {400, 408, 429}
     \/ IsServerError(resp) /\ resp.status \notin {500, 502, 503, 504}
  THEN Terminal
  ELSE Pass

\* Mutant: the catch-all handler placed at the head of the error handlers.
VerdictsTerminalFirst(resp) ==
  << SuccessHandler(resp), TerminalErrorHandler(resp), TimeoutHandler(resp),
     RateLimitHandler(resp), InvalidApiKeyHandler(resp),
     ServerErrorHandler(resp) >>

\* The verdicts of the handlers, in the order AppState::new lists them.
Verdicts(resp) ==
  << SuccessHandler(resp), TimeoutHandler(resp), RateLimitHandler(resp),
     InvalidApiKeyHandler(resp), ServerErrorHandler(resp),
     TerminalErrorHandler(resp) >>

\* ResponseProcessor::process: the first handler that does not pass decides;
\* a response nobody claims goes back to the client.
Process(resp) ==
  LET claimed == {i \in 1..6 : Verdicts(resp)[i] # Pass}
  IN  IF claimed = {} THEN ReturnToClient ELSE Verdicts(resp)[Min(claimed)]
=============================================================================
