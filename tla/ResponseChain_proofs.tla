------------------------ MODULE ResponseChain_proofs ------------------------
(***************************************************************************)
(* The response chain for every set of statuses.                           *)
(***************************************************************************)
EXTENDS ResponseChain, TLAPS

Responses ==
  [status : Statuses, timeoutText : BOOLEAN, invalidKey : BOOLEAN,
   retryAfter : BOOLEAN]

\* The chain as a cascade: the first handler that does not pass decides.
LEMMA FirstHandlerDecides ==
  ASSUME NEW r
  PROVE  Process(r) =
           IF SuccessHandler(r) # Pass THEN SuccessHandler(r)
           ELSE IF TimeoutHandler(r) # Pass THEN TimeoutHandler(r)
           ELSE IF RateLimitHandler(r) # Pass THEN RateLimitHandler(r)
           ELSE IF InvalidApiKeyHandler(r) # Pass THEN InvalidApiKeyHandler(r)
           ELSE IF ServerErrorHandler(r) # Pass THEN ServerErrorHandler(r)
           ELSE IF TerminalErrorHandler(r) # Pass THEN TerminalErrorHandler(r)
           ELSE ReturnToClient
<1> DEFINE V == Verdicts(r)
           claimed == {i \in 1..6 : V[i] # Pass}
<1>1. /\ V[1] = SuccessHandler(r) /\ V[2] = TimeoutHandler(r)
      /\ V[3] = RateLimitHandler(r) /\ V[4] = InvalidApiKeyHandler(r)
      /\ V[5] = ServerErrorHandler(r) /\ V[6] = TerminalErrorHandler(r)
  BY DEF Verdicts
<1>2. Process(r) = IF claimed = {} THEN ReturnToClient ELSE V[Min(claimed)]
  BY DEF Process
<1> HIDE DEF V
<1>3. ASSUME NEW i \in 1..6, V[i] # Pass, \A j \in 1..6 : j < i => V[j] = Pass
      PROVE  Process(r) = V[i]
  <2>1. i \in claimed /\ \A j \in claimed : i <= j
    BY <1>3
  <2>2. \A m \in claimed : (\A j \in claimed : m <= j) => m = i
    BY <2>1
  <2> HIDE DEF claimed
  <2>3. Min(claimed) = i
    BY <2>1, <2>2 DEF Min
  <2>4. QED
    BY <1>2, <2>1, <2>3
<1>4. CASE \A i \in 1..6 : V[i] = Pass
  BY <1>1, <1>2, <1>4
<1>5. CASE \E i \in 1..6 : V[i] # Pass
  <2>1. PICK i \in 1..6 :
               V[i] # Pass /\ \A j \in 1..6 : j < i => V[j] = Pass
    BY <1>5
  <2>2. Process(r) = V[i]
    BY <2>1, <1>3
  <2>3. QED
    BY <2>1, <2>2, <1>1
<1>6. QED
  BY <1>4, <1>5

\* Every response but a 403 penalises the key exactly when the key or the upstream
\* is at fault.
THEOREM PenaltiesAreDeserved == Spec => []PenalisesExactlyFaultyKeys
<1> DEFINE Decided ==
      resp \in Responses /\ (action = Pass \/ action = Process(resp))
<1>1. Init => Decided
  BY DEF Init, Responses
<1>2. Decided /\ [Decide]_vars => Decided'
  BY DEF Decide, vars
<1>3. Decided => PenalisesExactlyFaultyKeys
  <2> SUFFICES ASSUME resp \in Responses, action = Process(resp), action # Pass,
                      resp.status # 403
               PROVE  action \in {RetryNextKey, BlockKeyAndRetry, WaitFor}
                        <=> KeyAtFault
    BY DEF PenalisesExactlyFaultyKeys
  <2>1. resp.status \in Nat
    BY StatusesAssumption DEF Responses
  <2>2. QED
    BY <2>1, FirstHandlerDecides
       DEF KeyAtFault, SuccessHandler, TimeoutHandler, RateLimitHandler,
           InvalidApiKeyHandler, ServerErrorHandler, TerminalErrorHandler,
           IsSuccess, IsClientError, IsServerError, Pass, ReturnToClient,
           Terminal, RetryNextKey, BlockKeyAndRetry, WaitFor
<1>4. QED
  BY <1>1, <1>2, <1>3, PTL DEF Spec

\* The order of the handlers matters for one kind of response only.
THEOREM HandlersDoNotCompete == Spec => []HandlersAgree
<1> DEFINE Typed == resp \in Responses
<1>1. Init => Typed
  BY DEF Init, Responses
<1>2. Typed /\ [Decide]_vars => Typed'
  BY DEF Decide, vars
<1>3. Typed => HandlersAgree
  <2> SUFFICES ASSUME resp \in Responses, NEW i \in 1..6, NEW j \in 1..6,
                      Verdicts(resp)[i] # Pass, Verdicts(resp)[j] # Pass
               PROVE  \/ Verdicts(resp)[i] = Verdicts(resp)[j]
                      \/ /\ {i, j} = {2, 6}
                         /\ IsServerError(resp) /\ resp.timeoutText
                         /\ resp.status \notin {500, 502, 503, 504}
    BY DEF HandlersAgree
  <2> DEFINE V == Verdicts(resp)
  <2>1. resp.status \in Nat
    BY StatusesAssumption DEF Responses
  <2>2. /\ V[1] = SuccessHandler(resp) /\ V[2] = TimeoutHandler(resp)
        /\ V[3] = RateLimitHandler(resp) /\ V[4] = InvalidApiKeyHandler(resp)
        /\ V[5] = ServerErrorHandler(resp) /\ V[6] = TerminalErrorHandler(resp)
    BY DEF Verdicts
  <2> HIDE DEF V
  <2>3. V[i] # Pass /\ V[j] # Pass
    BY DEF V
  <2>4. \/ V[i] = V[j]
        \/ /\ {i, j} = {2, 6}
           /\ IsServerError(resp) /\ resp.timeoutText
           /\ resp.status \notin {500, 502, 503, 504}
    BY <2>1, <2>2, <2>3
       DEF SuccessHandler, TimeoutHandler, RateLimitHandler,
           InvalidApiKeyHandler, ServerErrorHandler, TerminalErrorHandler,
           IsSuccess, IsClientError, IsServerError, Pass, ReturnToClient,
           Terminal, RetryNextKey, BlockKeyAndRetry, WaitFor
  <2>5. QED
    BY <2>4 DEF V
<1>4. QED
  BY <1>1, <1>2, <1>3, PTL DEF Spec
=============================================================================
