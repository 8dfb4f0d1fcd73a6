--------------------------- MODULE ResponseChain ---------------------------
(***************************************************************************)
(* One run of the response chain over every response: what the chain does  *)
(* to the key that was used, and whether the order of the handlers in      *)
(* AppState::new matters.                                                  *)
(***************************************************************************)
EXTENDS ResponseHandlers

CONSTANT Statuses      \* the HTTP status codes considered

ASSUME StatusesAssumption == Statuses \subseteq Nat

VARIABLES
  resp,                \* the upstream response
  action               \* the chain's decision, Pass until it is taken

vars == <<resp, action>>

Init ==
  /\ resp \in [status : Statuses, timeoutText : BOOLEAN,
               invalidKey : BOOLEAN, retryAfter : BOOLEAN]
  /\ action = Pass

Decide ==
  /\ action = Pass
  /\ action' = Process(resp)
  /\ UNCHANGED resp

Spec == Init /\ [][Decide]_vars
-----------------------------------------------------------------------------
\* The responses that say something about the key or the upstream rather
\* than about the client's request.
KeyAtFault ==
  \/ resp.status \in {408, 429, 500, 502, 503, 504}
  \/ resp.status = 400 /\ resp.invalidKey
  \/ IsServerError(resp) /\ resp.timeoutText

\* A response costs the key something (a failure, a block or a rate limit)
\* exactly when it is one of those: a client's own mistake (401, 404, a plain
\* 400) never takes a key out of rotation, and no sign of a faulty key or upstream
\* is handed to the client while other keys are left.  Nothing is said of a 403,
\* of which README.md:398 promises what TerminalErrorHandler does not do.
PenalisesExactlyFaultyKeys ==
  action # Pass /\ resp.status # 403 =>
    (action \in {RetryNextKey, BlockKeyAndRetry, WaitFor} <=> KeyAtFault)

\* The handlers do not compete: two that both claim a response agree on the
\* action, so their order is irrelevant, save for a 5xx other than 500, 502,
\* 503 and 504 that speaks of a timeout, where TimeoutHandler has to come
\* before the catch-all TerminalErrorHandler (2 and 6 in the chain).
HandlersAgree ==
  \A i, j \in 1..6 :
    \/ Pass \in {Verdicts(resp)[i], Verdicts(resp)[j]}
    \/ Verdicts(resp)[i] = Verdicts(resp)[j]
    \/ /\ {i, j} = {2, 6}
       /\ IsServerError(resp) /\ resp.timeoutText
       /\ resp.status \notin {500, 502, 503, 504}
=============================================================================
